---------------------------- MODULE Spec2Model ----------------------------
(***************************************************************************)
(* Procedural ambient music generator: tone synthesis, envelope, composer, *)
(* effect chain and the per-chunk tick of the two application front ends.  *)
(*                                                                         *)
(* Number representation.  The program computes on floats; the model       *)
(* computes on fixed-point integers:                                       *)
(*   - a sample or a gain g is the integer g * ONE, every product is       *)
(*     divided back by ONE and truncated toward zero (Trunc);              *)
(*   - a duration is the exact fraction [n, d] seconds, so 60/tempo is     *)
(*     [60, tempo] and int(...) of a product is an exact floor;            *)
(*   - a frequency is an integer number of tenths of a hertz;              *)
(*   - a phase is quantised to PhaseSteps steps per cycle;                 *)
(*   - amounts of effects are hundredths (the sliders' unit).              *)
(* The program's frame rate is 44100 per second.  The model runs the same  *)
(* code at the much smaller rate SAMPLE_RATE, so that a buffer holds a     *)
(* handful of frames while every length, delay and index is still derived  *)
(* from the rate by the code's own expression.                             *)
(***************************************************************************)
EXTENDS Integers, Sequences, FiniteSets, TLC

VARIABLES
    rng,    \* state of numpy's global random generator (np.random)
    call,   \* the function or handler invoked last, with its arguments
    ret,    \* what that invocation produced: outcome and value
    app     \* the attributes and widgets of the ProceduralMusicApp object

vars == <<rng, call, ret, app>>

---------------------------------------------------------------------------
(* Bounds of the model *)

SAMPLE_RATE == 1000     \* frames per second of the model (program: 44100)
MaxToneTicks == 66      \* longest directly requested tone, in 1/10000 s
MaxChunkTicks == 80     \* longest directly requested chunk, in 1/10000 s
EffectFrames == 250     \* frames of a chunk handed to the effect chain
MaxTicks == 2           \* chunk-generation ticks followed per application run
MaxLfoSteps == 3        \* calls of step followed on the oscillators used directly
MonoFrames == 2700      \* frames of the longest buffer handed to one mono effect
MaxEnvelopeFrames == 12 \* samples of the longest signal handed to apply_envelope
MaxAdvances == 7         \* calls of advance_scene followed after load_scene_list

ONE == 10 * 10 * 10     \* fixed-point representation of 1.0
PhaseSteps == 2 * 100   \* quantisation of one cycle of phase

---------------------------------------------------------------------------
(* Arithmetic helpers *)

Abs(x) == IF x < 0 THEN -x ELSE x

\* int(a / b) of Python for b > 0: truncation toward zero
Trunc(a, b) == IF a >= 0 THEN a \div b ELSE -((-a) \div b)

\* round(a / b) for a >= 0, b > 0 (half up)
RoundDiv(a, b) == (2 * a + b) \div (2 * b)

Min(a, b) == IF a <= b THEN a ELSE b
Max(a, b) == IF a >= b THEN a ELSE b

Pow2(k) == IF k <= 0 THEN 1 ELSE 2 ^ k

\* np.clip(x, -1, 1) on one sample
Clip1(x) == IF x > ONE THEN ONE ELSE IF x < -ONE THEN -ONE ELSE x

\* a buffer given by its samples, as an evaluated sequence of values
Buffer(f) == f \o <<>>

\* np.clip(buffer, -1, 1)
clip(s) == Buffer([i \in 1..Len(s) |-> Clip1(s[i])])

\* np.zeros(n)
Zeros(n) == Buffer([i \in 1..n |-> 0])

\* a duration of n/d seconds
Dur(n, d) == [n |-> n, d |-> d]

\* round(rate * duration)
n_samples_round(duration) == RoundDiv(SAMPLE_RATE * duration.n, duration.d)

\* int(rate * duration): the number of frames of a duration
n_samples(duration) == (SAMPLE_RATE * duration.n) \div duration.d

---------------------------------------------------------------------------
(* The random source: numpy's global generator.  Its state is one integer; *)
(* every draw advances it.  A small linear congruential generator stands    *)
(* for the Mersenne twister: deterministic given its state, and the state  *)
(* is global, shared by every drawing function.                            *)

RngMod == 2 ^ 6

rng_next(s) == (s * 37 + 57) % RngMod

\* the states the generator can be in when a function is entered
RngStates == 0..(RngMod - 1)

\* np.random.rand() < p, p in hundredths: the draw is the state just reached
rand_lt(s, pct) == rng_next(s) * 100 < pct * RngMod

\* np.random.choice over k elements, np.random.randint(0, k): index in 0..k-1
rand_index(s, k) == (rng_next(s) * k) \div RngMod

\* one sample of np.random.normal(0, 1): unbounded in the program; the model
\* draws from eight quantiles, the outer ones beyond 1 in magnitude
NormalTable == << -(5 * ONE) \div 2, -(6 * ONE) \div 5, -(3 * ONE) \div 5, -ONE \div 5,
                  ONE \div 5, (3 * ONE) \div 5, (6 * ONE) \div 5, (5 * ONE) \div 2 >>

rand_normal(s) == NormalTable[rand_index(s, Len(NormalTable)) + 1]

\* the state after k draws
RECURSIVE rng_after(_, _)
rng_after(s, k) == IF k <= 0 THEN s ELSE rng_after(rng_next(s), k - 1)

\* np.random.normal(0, 1, n): n successive draws
normal_buffer(s, n) == Buffer([i \in 1..n |-> rand_normal(rng_after(s, i - 1))])

---------------------------------------------------------------------------
(* audio_utils.py *)

INSTRUMENTS == {"sine", "square", "triangle", "sawtooth", "fm_sine", "noise_pad"}

\* 2^(k/12) for k in 0..11, in thousandths
SemitoneRatio == <<1000, 1059, 1122, 1189, 1260, 1335, 1414, 1498, 1587, 1682, 1782, 1888>>

\* 440 * 2 ** ((midi_note - 69) / 12), in tenths of a hertz
midi_to_freq(midi_note) ==
    LET k    == midi_note - 69
        oct  == IF k >= 0 THEN k \div 12 ELSE -((11 - k) \div 12)
        semi == k - 12 * oct
        base == (4400 * SemitoneRatio[semi + 1]) \div 1000
    IN  IF oct >= 0 THEN base * Pow2(oct) ELSE base \div Pow2(-oct)

\* sin of a quantised phase u in 0..PhaseSteps-1 (Bhaskara's rational
\* approximation on each half cycle), in fixed point
SinU(u) ==
    LET h    == PhaseSteps \div 2
        a    == IF u <= h THEN u ELSE u - h
        prod == a * (h - a)
        v    == (16 * prod * ONE) \div (5 * h * h - 4 * prod)
    IN  IF u <= h THEN v ELSE -v

\* the phase of p/q cycles, reduced to one cycle and quantised
PhaseOf(p, q) == ((p % q) * PhaseSteps) \div q

Sign(x) == IF x > 0 THEN ONE ELSE IF x < 0 THEN -ONE ELSE 0

\* 2 * arcsin(sin(theta)) / pi: the triangle of the phase
TriangleU(u) ==
    LET qtr == PhaseSteps \div 4
    IN  IF u <= qtr THEN (u * ONE) \div qtr
        ELSE IF u <= 3 * qtr THEN Trunc((2 * qtr - u) * ONE, qtr)
        ELSE Trunc((u - 4 * qtr) * ONE, qtr)

\* 2 * x without the floor term: the ramp is never wrapped
SawtoothU_unwrapped(u) == (2 * u * ONE) \div PhaseSteps

\* 2 * (x - floor(0.5 + x)) for x = u / PhaseSteps
SawtoothU(u) ==
    LET h == PhaseSteps \div 2
    IN  IF u < h THEN (u * ONE) \div h ELSE Trunc((u - 2 * h) * ONE, h)

\* sin(theta + mod_index * sin(2 * theta)), mod_index = 2.0: the modulator's
\* value 2*sin(.) radians is converted to phase steps (pi taken as 22/7)
FmSineU(u) ==
    LET inner == SinU((2 * u) % PhaseSteps)
        shift == Trunc(2 * inner * PhaseSteps * 7, 2 * 22 * ONE)
    IN  SinU((u + shift) % PhaseSteps)

\* apply_envelope(signal, attack, decay); attack and decay in hundredths
\* np.linspace(0, 1, k)[j] = j/(k-1), np.linspace(1, 0, k)[j] = 1 - j/(k-1)
LinUp(j, k) == IF k = 1 THEN 0 ELSE (j * ONE) \div (k - 1)
LinDown(j, k) == IF k = 1 THEN ONE ELSE ONE - (j * ONE) \div (k - 1)

\* an envelope whose attack ramp is written after the decay ramp
envelope_attack_last(n, attack, decay) ==
    LET attack_samples == (attack * n) \div 100
        decay_samples  == (decay * n) \div 100
    IN  Buffer([i \in 1..n |->
            IF attack_samples > 0 /\ i <= attack_samples
                THEN LinUp(i - 1, attack_samples)
            ELSE IF decay_samples > 0 /\ i > n - decay_samples
                THEN LinDown(i - 1 - (n - decay_samples), decay_samples)
            ELSE ONE])

envelope(n, attack, decay) ==
    LET attack_samples == (attack * n) \div 100
        decay_samples  == (decay * n) \div 100
    IN  Buffer([i \in 1..n |->
            IF decay_samples > 0 /\ i > n - decay_samples
                THEN LinDown(i - 1 - (n - decay_samples), decay_samples)
            ELSE IF attack_samples > 0 /\ i <= attack_samples
                THEN LinUp(i - 1, attack_samples)
            ELSE ONE])

apply_envelope(signal, attack, decay) ==
    LET env == envelope(Len(signal), attack, decay)
    IN  Buffer([i \in 1..Len(signal) |-> Trunc(signal[i] * env[i], ONE)])

\* the waveform sample at index i (0-based) of n: t = i * duration / n
wave_at(frequency, duration, instrument, i, n) ==
    LET u == PhaseOf(frequency * i * duration.n, 10 * duration.d * n)
    IN  CASE instrument = "sine"     -> SinU(u)
          [] instrument = "square"   -> Sign(SinU(u))
          [] instrument = "triangle" -> TriangleU(u)
          [] instrument = "sawtooth" -> SawtoothU(u)
          [] instrument = "fm_sine"  -> FmSineU(u)

\* generate_tone(frequency, duration, instrument, volume), volume in
\* thousandths, s the generator state on entry.  An instrument matched by no
\* branch leaves `wave` unbound and the return statement raises
\* UnboundLocalError.
generate_tone(frequency, duration, instrument, volume, s) ==
    LET n == n_samples(duration)
    IN  IF instrument \notin INSTRUMENTS
            THEN [outcome |-> "UnboundLocalError", wave |-> <<>>, rng |-> s]
        ELSE IF instrument = "noise_pad"
            THEN LET noise == apply_envelope(normal_buffer(s, n), 50, 70)
                 IN  [outcome |-> "ok",
                      wave |-> Buffer([i \in 1..n |-> Trunc(noise[i] * volume, ONE)]),
                      rng |-> rng_after(s, n)]
        ELSE [outcome |-> "ok",
              wave |-> Buffer([i \in 1..n |->
                          Trunc(wave_at(frequency, duration, instrument, i - 1, n) * volume, ONE)]),
              rng |-> s]

\* generate_noise(duration, volume)
generate_noise(duration, volume, s) ==
    LET n == n_samples(duration)
        noise == normal_buffer(s, n)
    IN  [wave |-> Buffer([i \in 1..n |-> Trunc(noise[i] * volume, ONE)]),
         rng |-> rng_after(s, n)]

\* apply_pan(signal, pan): a stereo buffer, one <<left, right>> per frame
apply_pan(signal, pan) ==
    Buffer([i \in 1..Len(signal) |->
        << Trunc(signal[i] * (ONE - pan), 2 * ONE),
           Trunc(signal[i] * (ONE + pan), 2 * ONE) >>])

---------------------------------------------------------------------------
(* audio_utils.py: the effects.  Amounts are hundredths.  A mono effect    *)
(* returns [outcome, wave]: indexing past the end of a numpy array raises  *)
(* IndexError.                                                             *)

Left(chunk) == Buffer([i \in 1..Len(chunk) |-> chunk[i][1]])
Right(chunk) == Buffer([i \in 1..Len(chunk) |-> chunk[i][2]])
Stereo(left, right) == Buffer([i \in 1..Len(left) |-> <<left[i], right[i]>>])

\* np.clip(chunk, -1, 1) on a stereo buffer
clip_stereo(chunk) == Buffer([i \in 1..Len(chunk) |-> <<Clip1(chunk[i][1]), Clip1(chunk[i][2])>>])

\* sin(2 * pi * p / q), in fixed point
SinCycles(p, q) == SinU(PhaseOf(p, q))

\* apply_reverb(signal, decay, delay_time = 0.03)
apply_reverb(signal, decay) ==
    LET delay_samples == (SAMPLE_RATE * 3) \div 100
    IN  [outcome |-> "ok",
         wave |-> clip(Buffer([i \in 1..Len(signal) |->
                     IF i > delay_samples
                         THEN signal[i] + Trunc(signal[i - delay_samples] * decay, 100)
                         ELSE signal[i]]))]

\* a delay whose sum reads the input, as the reverb's does
apply_delay_feedforward(signal, feedback) ==
    LET delay_samples == (SAMPLE_RATE * 2) \div 10
    IN  [outcome |-> "ok",
         wave |-> clip(Buffer([i \in 1..Len(signal) |->
                     IF i > delay_samples
                         THEN signal[i] + Trunc(signal[i - delay_samples] * feedback, 100)
                         ELSE signal[i]]))]

\* apply_delay(signal, delay_time = 0.2, feedback): the sum reads the
\* output already written
apply_delay(signal, feedback) ==
    LET delay_samples == (SAMPLE_RATE * 2) \div 10
        output[i \in 1..Len(signal)] ==
            IF i > delay_samples
                THEN signal[i] + Trunc(output[i - delay_samples] * feedback, 100)
                ELSE signal[i]
    IN  [outcome |-> "ok", wave |-> clip(Buffer([i \in 1..Len(signal) |-> output[i]]))]

\* apply_chorus(signal, depth = 0.003, rate), rate in ten-thousandths of a
\* hertz; i is the 0-based index of the loop
chorus_mod(i, rate) ==
    LET delay_samples == (3 * SAMPLE_RATE) \div 1000
    IN  Trunc(delay_samples * SinCycles(rate * i, 10000 * SAMPLE_RATE), ONE)

apply_chorus(signal, rate) ==
    LET n_frames      == Len(signal)
        delay_samples == (3 * SAMPLE_RATE) \div 1000
        read(i)       == i - chorus_mod(i, rate)
        bad           == {i \in delay_samples..(n_frames - 1) : read(i) >= n_frames}
    IN  IF bad # {}
            THEN [outcome |-> "IndexError", wave |-> <<>>]
            ELSE [outcome |-> "ok",
                  wave |-> clip(Buffer([k \in 1..n_frames |->
                              IF k - 1 >= delay_samples
                                  THEN signal[k] + Trunc(signal[read(k - 1) + 1], 2)
                                  ELSE signal[k]]))]

\* apply_phaser(signal, rate, depth): rate in ten-thousandths of a hertz,
\* depth in ten-thousandths of a second
phaser_shift(i, rate, depth) ==
    Trunc(depth * SAMPLE_RATE * SinCycles(rate * i, 10000 * SAMPLE_RATE), 10000 * ONE)

apply_phaser(signal, rate, depth) ==
    LET n_frames == Len(signal)
        read(i)  == i - phaser_shift(i, rate, depth)
        bad      == {i \in 0..(n_frames - 1) : read(i) >= n_frames}
    IN  IF bad # {}
            THEN [outcome |-> "IndexError", wave |-> <<>>]
            ELSE [outcome |-> "ok",
                  wave |-> clip(Buffer([k \in 1..n_frames |->
                              IF read(k - 1) >= 0
                                  THEN signal[k] + signal[read(k - 1) + 1]
                                  ELSE signal[k]]))]

\* apply_stereo_widen(signal, amount): no clipping
apply_stereo_widen(chunk, amount) ==
    Buffer([i \in 1..Len(chunk) |->
        LET left  == chunk[i][1]
            right == chunk[i][2]
            mid   == Trunc(left + right, 2)
            side  == Trunc((left - right) * (100 + amount), 2 * 100)
        IN  <<mid + side, mid - side>>])

\* omega = 2 * pi * cutoff / rate, in thousandths (pi taken as 22/7)
omega(cutoff) == (2 * 22 * cutoff * 1000) \div (7 * SAMPLE_RATE)

\* scipy.signal.lfilter(b, a, x) with a = [1, a1]:
\*   y[k] = b0 * x[k] + b1 * x[k-1] - a1 * y[k-1]
\* low:  b = [w/(w+1)],               a1 = (w-1)/(w+1)
\* high: b = [1/(w+1), -1/(w+1)],     a1 = (w-1)/(w+1)
lfilter_step(x, filter_type, w, k, y1) ==
    LET x0 == x[k]
        x1 == IF k > 1 THEN x[k - 1] ELSE 0
    IN  IF filter_type = "low"
            THEN Trunc(w * x0 - (w - 1000) * y1, w + 1000)
            ELSE Trunc(1000 * (x0 - x1) - (w - 1000) * y1, w + 1000)

\* the outputs y[lo..hi], given y[lo-1]; the range is halved so that the
\* evaluation nests only logarithmically deep
RECURSIVE lfilter(_, _, _, _, _, _)
lfilter(x, filter_type, w, lo, hi, y1) ==
    IF lo > hi THEN <<>>
    ELSE IF lo = hi THEN <<lfilter_step(x, filter_type, w, lo, y1)>>
    ELSE LET mid   == (lo + hi) \div 2
             first == lfilter(x, filter_type, w, lo, mid, y1)
         IN  first \o lfilter(x, filter_type, w, mid + 1, hi, first[Len(first)])

\* apply_filter(signal, filter_type, cutoff) on one channel: the function
\* tests no cutoff, it filters whatever the cutoff is
apply_filter_mono(signal, filter_type, cutoff) ==
    lfilter(signal, filter_type, omega(cutoff), 1, Len(signal), 0)

\* apply_filter on a stereo chunk: lfilter along axis 0, channel by channel
apply_filter(chunk, filter_type, cutoff) ==
    Stereo(apply_filter_mono(Left(chunk), filter_type, cutoff),
           apply_filter_mono(Right(chunk), filter_type, cutoff))

\* `if amount >= 0`: a stage that also runs at amount 0
stage_enabled_at_zero(amount) == amount >= 0

\* `if cutoff >= 20`: a filter that also runs at the cutoff 20
filter_enabled_at_20(cutoff) == cutoff >= 20

\* the tests of process_effects: `if amount > 0`, `if cutoff > 20`
stage_enabled(amount) == amount > 0
filter_enabled(cutoff) == cutoff > 20

\* the chunk once a mono effect has run on both channels and each result
\* has been written back: the left channel first, then the right
join_channels(chunk, l, r) ==
    IF l.outcome # "ok" THEN [outcome |-> l.outcome, chunk |-> chunk]
    ELSE IF r.outcome # "ok"
        THEN [outcome |-> r.outcome, chunk |-> Stereo(l.wave, Right(chunk))]
    ELSE [outcome |-> "ok", chunk |-> Stereo(l.wave, r.wave)]

\* the call each of the first four stages makes on one channel
mono_effect(stage, signal, amount) ==
    CASE stage = "reverb" -> apply_reverb(signal, amount)
      [] stage = "delay"  -> apply_delay(signal, amount)
      [] stage = "chorus" -> apply_chorus(signal, 25 * amount)
      [] stage = "phaser" -> apply_phaser(signal, 20 * amount, 2 * amount)

both_channels(chunk, stage, amount) ==
    join_channels(chunk, mono_effect(stage, Left(chunk), amount), mono_effect(stage, Right(chunk), amount))

\* The chain is followed stage by stage on fx = [outcome, chunk, arg, after]:
\* chunk is the local name `chunk`, arg the caller's array, after the chunk
\* as each stage left it.  The first four stages assign into the caller's
\* array, the later ones rebind the local name to a new array.
StageNames == {"reverb", "delay", "chorus", "phaser", "widen", "low", "high"}

fx_start(chunk) ==
    [outcome |-> "ok", chunk |-> chunk, arg |-> chunk,
     after |-> [n \in StageNames |-> <<>>]]

fx_set(fx, stage, r, in_place) ==
    [outcome |-> r.outcome,
     chunk   |-> r.chunk,
     arg     |-> IF in_place THEN r.chunk ELSE fx.arg,
     after   |-> [fx.after EXCEPT ![stage] = r.chunk]]

\* `if amount > 0: chunk[:, 0] = effect(chunk[:, 0]); chunk[:, 1] = ...`
mono_stage(fx, stage, enabled, amount) ==
    IF fx.outcome # "ok" THEN fx
    ELSE IF enabled THEN fx_set(fx, stage, both_channels(fx.chunk, stage, amount), TRUE)
    ELSE fx_set(fx, stage, fx, TRUE)

\* `if stereo_widen > 0: chunk = apply_stereo_widen(chunk, stereo_widen)`
widen_stage(fx, enabled, amount) ==
    IF fx.outcome # "ok" THEN fx
    ELSE IF enabled
        THEN fx_set(fx, "widen",
                    [outcome |-> "ok", chunk |-> apply_stereo_widen(fx.chunk, amount)], FALSE)
    ELSE fx_set(fx, "widen", fx, FALSE)

\* `if cutoff > 20: chunk = apply_filter(chunk, filter_type, cutoff)`
filter_stage(fx, stage, enabled, filter_type, cutoff) ==
    IF fx.outcome # "ok" THEN fx
    ELSE IF enabled
        THEN fx_set(fx, stage,
                    [outcome |-> "ok", chunk |-> apply_filter(fx.chunk, filter_type, cutoff)],
                    FALSE)
    ELSE fx_set(fx, stage, fx, FALSE)

\* `return np.clip(chunk, -1, 1)`
clip_stage(fx) ==
    [outcome |-> fx.outcome,
     out     |-> IF fx.outcome = "ok" THEN clip_stereo(fx.chunk) ELSE <<>>,
     arg     |-> fx.arg,
     after   |-> fx.after]

\* a chain that runs the delay before the reverb
process_effects_delay_first(chunk, reverb_amount, delay_amount, lowpass_cutoff, highpass_cutoff, chorus_amount, phaser_amount, stereo_widen) ==
    clip_stage(
        filter_stage(
        filter_stage(
        widen_stage(
        mono_stage(
        mono_stage(
        mono_stage(
        mono_stage(fx_start(chunk),
                   "delay", stage_enabled(delay_amount), delay_amount),
                   "reverb", stage_enabled(reverb_amount), reverb_amount),
                   "chorus", stage_enabled(chorus_amount), chorus_amount),
                   "phaser", stage_enabled(phaser_amount), phaser_amount),
                   stage_enabled(stereo_widen), stereo_widen),
                   "low", filter_enabled(lowpass_cutoff), "low", lowpass_cutoff),
                   "high", filter_enabled(highpass_cutoff), "high", highpass_cutoff))

\* process_effects(chunk, reverb_amount, delay_amount, lowpass_cutoff,
\* highpass_cutoff, chorus_amount, phaser_amount, stereo_widen): reverb,
\* delay, chorus, phaser, widening, low-pass, high-pass, clip
process_effects(chunk, reverb_amount, delay_amount, lowpass_cutoff, highpass_cutoff, chorus_amount, phaser_amount, stereo_widen) ==
    clip_stage(
        filter_stage(
        filter_stage(
        widen_stage(
        mono_stage(
        mono_stage(
        mono_stage(
        mono_stage(fx_start(chunk),
                   "reverb", stage_enabled(reverb_amount), reverb_amount),
                   "delay", stage_enabled(delay_amount), delay_amount),
                   "chorus", stage_enabled(chorus_amount), chorus_amount),
                   "phaser", stage_enabled(phaser_amount), phaser_amount),
                   stage_enabled(stereo_widen), stereo_widen),
                   "low", filter_enabled(lowpass_cutoff), "low", lowpass_cutoff),
                   "high", filter_enabled(highpass_cutoff), "high", highpass_cutoff))

---------------------------------------------------------------------------
(* procedural_generator.py *)

SCALES == [major      |-> <<0, 2, 4, 5, 7, 9, 11, 12>>,
           minor      |-> <<0, 2, 3, 5, 7, 8, 10, 12>>,
           pentatonic |-> <<0, 2, 4, 7, 9, 12>>,
           chromatic  |-> <<0, 1, 2, 3, 4, 5, 6, 7, 8, 9, 10, 11, 12>>]

\* SCALES.get(scale, SCALES['minor']): an unknown name falls back to minor
scale_lookup_default(scale) ==
    [outcome |-> "ok",
     scale_notes |-> IF scale \in DOMAIN SCALES THEN SCALES[scale] ELSE SCALES["minor"]]

\* SCALES[scale]: a name that is no key raises KeyError
scale_lookup(scale) ==
    IF scale \in DOMAIN SCALES
        THEN [outcome |-> "ok", scale_notes |-> SCALES[scale]]
        ELSE [outcome |-> "KeyError", scale_notes |-> <<>>]

\* a rotation to the right: chord[-inversion:] + chord[:-inversion]
chord_inversion_right(chord, inversion) ==
    SubSeq(chord, Len(chord) - inversion + 1, Len(chord)) \o SubSeq(chord, 1, Len(chord) - inversion)

\* chord[inversion:] + chord[:inversion]
chord_inversion(chord, inversion) ==
    SubSeq(chord, inversion + 1, Len(chord)) \o SubSeq(chord, 1, inversion)

\* audio[start_idx:end_idx] += tone[:len(audio[start_idx:end_idx])]
\* Python clamps a slice to the buffer; numpy adds in place when the two
\* lengths agree or the right-hand side has one element (broadcast), and
\* raises ValueError otherwise.
slice_len(n, start_idx, end_idx) == Max(0, Min(end_idx, n) - Min(start_idx, n))

add_fits(audio, start_idx, end_idx, tone) ==
    LET L == slice_len(Len(audio), start_idx, end_idx)
        T == Min(L, Len(tone))
    IN  T = L \/ T = 1

add_at(audio, start_idx, end_idx, tone) ==
    LET L == slice_len(Len(audio), start_idx, end_idx)
        T == Min(L, Len(tone))
    IN  Buffer([i \in 1..Len(audio) |->
            IF i > start_idx /\ i <= start_idx + L
                THEN audio[i] + (IF T = L THEN tone[i - start_idx] ELSE tone[1])
                ELSE audio[i]])

\* the six orders np.random.permutation(3) can return
Permutations3 == << <<0, 1, 2>>, <<0, 2, 1>>, <<1, 0, 2>>, <<1, 2, 0>>, <<2, 0, 1>>, <<2, 1, 0>> >>

RECURSIVE Repeat(_, _)
Repeat(seq, k) == IF k <= 0 THEN <<>> ELSE seq \o Repeat(seq, k - 1)

\* order * (beats // n_notes + 1): a Python list is repeated, whereas the
\* numpy array of the random style is multiplied element by element
arpeggio_slots(style, n_notes, beats, s) ==
    LET k == beats \div n_notes + 1
    IN  IF style = "up" THEN Repeat([j \in 1..n_notes |-> j - 1], k)
        ELSE IF style = "down" THEN Repeat([j \in 1..n_notes |-> n_notes - j], k)
        ELSE LET perm == Permutations3[rand_index(s, 6) + 1]
             IN  [j \in 1..n_notes |-> perm[j] * k]

\* The composing loops work on st = [audio, rng, notes, outcome]: the
\* buffer, the generator's state, the notes placed so far and "ok" or the
\* exception that ended the call.

\* audio[start_idx:end_idx] += tone[:len(audio[start_idx:end_idx])], with
\* the generator left in state s; note describes what is placed
mix_in(st, s, tone, start_idx, end_idx, note) ==
    IF ~add_fits(st.audio, start_idx, end_idx, tone)
        THEN [st EXCEPT !.outcome = "ValueError", !.rng = s]
        ELSE [audio   |-> add_at(st.audio, start_idx, end_idx, tone),
              rng     |-> s,
              notes   |-> Append(st.notes,
                                 [layer  |-> note.layer, slot |-> note.slot,
                                  start  |-> start_idx, pitch |-> note.pitch,
                                  freq   |-> note.freq,
                                  frames |-> slice_len(Len(st.audio), start_idx, end_idx)]),
              outcome |-> "ok"]

\* tone = apply_envelope(tone, attack, decay), then the addition; t is what
\* generate_tone returned
add_tone(st, t, attack, decay, start_idx, end_idx, note) ==
    IF t.outcome # "ok"
        THEN [st EXCEPT !.outcome = t.outcome, !.rng = t.rng]
        ELSE mix_in(st, t.rng, apply_envelope(t.wave, attack, decay), start_idx, end_idx, note)

\* the loop of generate_arpeggio over the slots, from slot i (0-based).
\* The loop variable `note` is the element of `order`, an index, and it is
\* what midi_to_freq receives.
RECURSIVE arpeggio_loop(_, _, _, _, _, _)
arpeggio_loop(st, i, slots, tempo, instrument, volume) ==
    IF i >= Len(slots) \/ st.outcome # "ok" THEN st
    ELSE LET note      == slots[i + 1]
             start_idx == (i * SAMPLE_RATE * 60) \div tempo
             end_idx   == start_idx + (60 * SAMPLE_RATE) \div tempo
             freq      == midi_to_freq(note)
         IN  arpeggio_loop(
                 add_tone(st, generate_tone(freq, Dur(60, tempo), instrument, volume, st.rng),
                          2, 30, start_idx, end_idx,
                          [layer |-> "arpeggio", slot |-> i, pitch |-> note, freq |-> freq]),
                 i + 1, slots, tempo, instrument, volume)

\* generate_arpeggio(chord, duration, instrument, volume, style, tempo)
generate_arpeggio(chord, duration, instrument, volume, style, tempo, s) ==
    LET beats   == (duration.n * tempo) \div (duration.d * 60)
        n_notes == Len(chord)
        slots   == arpeggio_slots(style, n_notes, beats, s)
        s1      == IF style \in {"up", "down"} THEN s ELSE rng_next(s)
    IN  arpeggio_loop([audio |-> Zeros(n_samples(duration)), rng |-> s1,
                       notes |-> <<>>, outcome |-> "ok"],
                      0, slots, tempo, instrument, volume)

\* Drone layer: lines 39-47
RECURSIVE drone_loop(_, _, _, _, _, _)
drone_loop(st, i, beats, tempo, scale_notes, instrument) ==
    IF i >= beats \/ st.outcome # "ok" THEN st
    ELSE LET s1 == rng_next(st.rng)
         IN  IF ~rand_lt(st.rng, 80)
                 THEN drone_loop([st EXCEPT !.rng = s1], i + 1, beats, tempo, scale_notes, instrument)
             ELSE LET root      == 48 + scale_notes[rand_index(s1, Len(scale_notes)) + 1]
                      s2        == rng_next(s1)
                      freq      == midi_to_freq(root)
                      start_idx == (i * SAMPLE_RATE * 60) \div tempo
                      end_idx   == start_idx + (SAMPLE_RATE * 60) \div tempo
                  IN  drone_loop(
                          add_tone(st, generate_tone(freq, Dur(60, tempo), instrument,
                                                     (8 * ONE) \div 100, s2),
                                   30, 70, start_idx, end_idx,
                                   [layer |-> "drone", slot |-> i, pitch |-> root, freq |-> freq]),
                          i + 1, beats, tempo, scale_notes, instrument)

\* the three simultaneous tones of a chord: lines 63-67
RECURSIVE chord_tones(_, _, _, _, _, _, _, _)
chord_tones(st, k, chord, i, start_idx, end_idx, tempo, instrument) ==
    IF k > Len(chord) \/ st.outcome # "ok" THEN st
    ELSE LET note == chord[k]
             freq == midi_to_freq(note)
         IN  chord_tones(
                 add_tone(st, generate_tone(freq, Dur(2 * 60, tempo), instrument,
                                            (5 * ONE) \div 100, st.rng),
                          50, 50, start_idx, end_idx,
                          [layer |-> "chord", slot |-> i, pitch |-> note, freq |-> freq]),
                 k + 1, chord, i, start_idx, end_idx, tempo, instrument)

ArpStyles == <<"up", "down", "random">>

\* audio[start_idx:end_idx] += arp_audio[:len(audio[start_idx:end_idx])];
\* arp is what generate_arpeggio returned
mix_arpeggio(st, arp, start_idx, end_idx) ==
    IF arp.outcome # "ok"
        THEN [st EXCEPT !.outcome = arp.outcome, !.rng = arp.rng]
    ELSE IF ~add_fits(st.audio, start_idx, end_idx, arp.audio)
        THEN [st EXCEPT !.outcome = "ValueError", !.rng = arp.rng]
    ELSE [audio   |-> add_at(st.audio, start_idx, end_idx, arp.audio),
          rng     |-> arp.rng,
          notes   |-> st.notes \o
                      [j \in 1..Len(arp.notes) |->
                         [arp.notes[j] EXCEPT !.start = @ + start_idx]],
          outcome |-> "ok"]

\* Chord layer with inversions/arpeggio: lines 50-67
RECURSIVE chord_loop(_, _, _, _, _, _, _)
chord_loop(st, i, beats, tempo, scale_notes, instrument, use_arpeggio) ==
    IF i >= beats \div 2 \/ st.outcome # "ok" THEN st
    ELSE LET s1 == rng_next(st.rng)
         IN  IF ~rand_lt(st.rng, 70)
                 THEN chord_loop([st EXCEPT !.rng = s1], i + 1, beats, tempo, scale_notes,
                                 instrument, use_arpeggio)
             ELSE LET root      == 60 + scale_notes[rand_index(s1, Len(scale_notes)) + 1]
                      s2        == rng_next(s1)
                      chord0    == <<root, root + scale_notes[3], root + scale_notes[5]>>
                      inversion == rand_index(s2, Len(chord0))
                      s3        == rng_next(s2)
                      chord     == chord_inversion(chord0, inversion)
                      start_idx == (i * 2 * SAMPLE_RATE * 60) \div tempo
                      end_idx   == start_idx + (2 * SAMPLE_RATE * 60) \div tempo
                      arp_style == ArpStyles[rand_index(s3, 3) + 1]
                      s4        == rng_next(s3)
                  IN  chord_loop(
                          IF use_arpeggio
                              THEN mix_arpeggio(st,
                                       generate_arpeggio(chord, Dur(2 * 60, tempo), instrument,
                                                         (5 * ONE) \div 100, arp_style, tempo, s4),
                                       start_idx, end_idx)
                              ELSE chord_tones([st EXCEPT !.rng = s3], 1, chord, i, start_idx,
                                               end_idx, tempo, instrument),
                          i + 1, beats, tempo, scale_notes, instrument, use_arpeggio)

\* Melody layer: lines 70-79; np.random.choice([0.5, 1, 1.5]) in halves
RECURSIVE melody_loop(_, _, _, _, _, _)
melody_loop(st, i, beats, tempo, scale_notes, instrument) ==
    IF i >= beats \/ st.outcome # "ok" THEN st
    ELSE LET s1 == rng_next(st.rng)
         IN  IF ~rand_lt(st.rng, 30)
                 THEN melody_loop([st EXCEPT !.rng = s1], i + 1, beats, tempo, scale_notes, instrument)
             ELSE LET note      == 60 + scale_notes[rand_index(s1, Len(scale_notes)) + 1]
                      s2        == rng_next(s1)
                      freq      == midi_to_freq(note)
                      start_idx == (i * SAMPLE_RATE * 60) \div tempo
                      halves    == rand_index(s2, 3) + 1
                      s3        == rng_next(s2)
                      dur_note  == Dur(60 * halves, 2 * tempo)
                      end_idx   == start_idx + n_samples(dur_note)
                  IN  melody_loop(
                          add_tone(st, generate_tone(freq, dur_note, instrument,
                                                     (7 * ONE) \div 100, s3),
                                   5, 50, start_idx, end_idx,
                                   [layer |-> "melody", slot |-> i, pitch |-> note, freq |-> freq]),
                          i + 1, beats, tempo, scale_notes, instrument)

\* np.random.uniform(-0.5, 0.5)
rand_pan(s) == (rng_next(s) * ONE) \div RngMod - ONE \div 2

\* the beat count rounded up instead of truncated
beat_count_ceil(duration, tempo) ==
    (duration.n * tempo + duration.d * 60 - 1) \div (duration.d * 60)

\* int(duration / 60 * tempo)
beat_count(duration, tempo) == (duration.n * tempo) \div (duration.d * 60)

\* Noise layer, clip and pan: lines 82-85, on the buffer the loops left
mix_noise(st, noise) ==
    [outcome |-> "ok", kind |-> "stereo",
     chunk   |-> apply_pan(clip(Buffer([i \in 1..Len(st.audio) |-> st.audio[i] + noise.wave[i]])),
                           rand_pan(noise.rng)),
     notes   |-> st.notes,
     noise   |-> noise.wave,
     pan     |-> rand_pan(noise.rng),
     rng     |-> rng_next(noise.rng)]

\* what the call leaves when a loop has raised: no chunk
chunk_failed(st) ==
    [outcome |-> st.outcome, kind |-> "none", chunk |-> <<>>, notes |-> st.notes,
     noise |-> <<>>, pan |-> 0, rng |-> st.rng]

finish_chunk(st, duration) ==
    IF st.outcome # "ok" THEN chunk_failed(st)
    ELSE mix_noise(st, generate_noise(duration, (2 * ONE) \div 100, st.rng))

\* the three loops on the scale found
compose(st, beats, tempo, scale_notes, instrument, use_arpeggio) ==
    melody_loop(
        chord_loop(
            drone_loop(st, 0, beats, tempo, scale_notes, instrument),
            0, beats, tempo, scale_notes, instrument, use_arpeggio),
        0, beats, tempo, scale_notes, instrument)

\* generate_procedural_chunk(duration, tempo, scale, instrument,
\* use_arpeggio, return_layers).  No statement reads return_layers: the
\* value returned is always the one stereo array of apply_pan.
generate_procedural_chunk(duration, tempo, scale, instrument, use_arpeggio, return_layers, s) ==
    LET st0   == [audio |-> Zeros(n_samples(duration)), rng |-> s, notes |-> <<>>,
                  outcome |-> "ok"]
        found == scale_lookup(scale)
    IN  IF found.outcome # "ok" THEN chunk_failed([st0 EXCEPT !.outcome = found.outcome])
        ELSE finish_chunk(compose(st0, beat_count(duration, tempo), tempo, found.scale_notes,
                                  instrument, use_arpeggio),
                          duration)

---------------------------------------------------------------------------
(* Calls.  A specification draws a call (the function and its arguments)   *)
(* and the generator's state in its initial state; its action runs the     *)
(* call to its result.                                                     *)

NoRet == [outcome |-> "none"]
NoApp == [which |-> "none"]
Pending(op) == call.op = op /\ ret = NoRet
Returned(op) == call.op = op /\ ret # NoRet

---------------------------------------------------------------------------
(* Direct calls of generate_tone *)

ToneFrequencies == {midi_to_freq(48), midi_to_freq(69), midi_to_freq(84)}
ToneDurations == {Dur(t, 10000) : t \in (MaxToneTicks - 4)..MaxToneTicks} \cup {Dur(0, 1)}
ToneVolumes == {ONE \div 5, ONE \div 2}
InstrumentNames == INSTRUMENTS \cup {"organ"}

ToneCalls ==
    { [op |-> "generate_tone", frequency |-> f, duration |-> d, instrument |-> inst,
       volume |-> v] :
        f \in ToneFrequencies, d \in ToneDurations, inst \in InstrumentNames, v \in ToneVolumes }

InitTone ==
    /\ rng \in RngStates
    /\ call \in ToneCalls
    /\ ret = NoRet
    /\ app = NoApp

RunGenerateTone ==
    /\ Pending("generate_tone")
    /\ LET r == generate_tone(call.frequency, call.duration, call.instrument, call.volume, rng)
       IN  /\ ret' = [outcome |-> r.outcome, wave |-> r.wave, rng0 |-> rng]
           /\ rng' = r.rng
    /\ UNCHANGED <<call, app>>

NextTone == RunGenerateTone

SpecTone == InitTone /\ [][NextTone]_vars

---------------------------------------------------------------------------
(* Direct calls of generate_procedural_chunk *)

ChunkDurations == {Dur(MaxChunkTicks - 34, 10000), Dur(MaxChunkTicks, 10000)}
ChunkTempos == {20, 15000, 24000}
ScaleNames == DOMAIN SCALES \cup {"blues"}
ChunkInstruments == {"sine", "sawtooth", "noise_pad", "organ"}

ChunkCalls ==
    { [op |-> "generate_procedural_chunk", duration |-> d, tempo |-> tempo, scale |-> sc,
       instrument |-> inst, use_arpeggio |-> arp, return_layers |-> lay] :
        d \in ChunkDurations, tempo \in ChunkTempos, sc \in ScaleNames,
        inst \in ChunkInstruments, arp \in BOOLEAN, lay \in BOOLEAN }

InitChunk ==
    /\ rng \in RngStates
    /\ call \in ChunkCalls
    /\ ret = NoRet
    /\ app = NoApp

\* what a direct call leaves in ret: the result and the state it started from
with_rng0(r, s) == [k \in (DOMAIN r \ {"rng"}) \cup {"rng0"} |-> IF k = "rng0" THEN s ELSE r[k]]

RunGenerateChunk ==
    /\ Pending("generate_procedural_chunk")
    /\ \E r \in {generate_procedural_chunk(call.duration, call.tempo, call.scale,
                                            call.instrument, call.use_arpeggio,
                                            call.return_layers, rng)} :
          ret' = with_rng0(r, rng) /\ rng' = r.rng
    /\ UNCHANGED <<call, app>>

NextChunk == RunGenerateChunk

SpecChunk == InitChunk /\ [][NextChunk]_vars

---------------------------------------------------------------------------
(* Direct calls of process_effects and apply_filter *)

\* the stereo chunks handed to the effects: one frame pattern each
EffectPatterns == {"impulse", "opposed", "alternating", "step", "hot", "quiet"}

pattern_frame(pattern, i) ==
    CASE pattern = "impulse"     -> IF i = 1 THEN <<ONE, -ONE>> ELSE <<0, 0>>
      [] pattern = "opposed"     -> <<ONE, -ONE>>
      [] pattern = "alternating" -> IF i % 2 = 1 THEN <<ONE, ONE>> ELSE <<-ONE, -ONE>>
      [] pattern = "step"        -> IF 2 * i <= EffectFrames THEN <<-ONE, -ONE>> ELSE <<ONE, ONE>>
      [] pattern = "hot"         -> IF i % 4 = 0 THEN <<(3 * ONE) \div 2, -(3 * ONE) \div 2>>
                                               ELSE <<ONE \div 4, ONE \div 8>>
      [] pattern = "quiet"       -> <<ONE \div 4, ONE \div 8>>

EffectChunks == {Buffer([i \in 1..EffectFrames |-> pattern_frame(p, i)]) : p \in EffectPatterns}

EffectCalls ==
    { [op |-> "process_effects", chunk |-> c, reverb_amount |-> rv, delay_amount |-> dl,
       lowpass_cutoff |-> lo, highpass_cutoff |-> hi, chorus_amount |-> ch,
       phaser_amount |-> ph, stereo_widen |-> sw] :
        c \in EffectChunks, rv \in {0, 30}, dl \in {0, 30}, lo \in {20, 400}, hi \in {20, 100},
        ch \in {0, 100}, ph \in {0, 100}, sw \in {0, 60} }

FilterCalls ==
    { [op |-> "apply_filter", chunk |-> c, filter_type |-> t, cutoff |-> k] :
        c \in EffectChunks, t \in {"low", "high"}, k \in {0, 10, 20, 400} }

InitEffects ==
    /\ rng \in {0}
    /\ call \in EffectCalls \cup FilterCalls
    /\ ret = NoRet
    /\ app = NoApp

RunProcessEffects ==
    /\ Pending("process_effects")
    /\ ret' = process_effects(call.chunk, call.reverb_amount, call.delay_amount,
                              call.lowpass_cutoff, call.highpass_cutoff, call.chorus_amount,
                              call.phaser_amount, call.stereo_widen)
    /\ UNCHANGED <<call, rng, app>>

RunApplyFilter ==
    /\ Pending("apply_filter")
    /\ ret' = [outcome |-> "ok", out |-> apply_filter(call.chunk, call.filter_type, call.cutoff)]
    /\ UNCHANGED <<call, rng, app>>

NextEffects == RunProcessEffects \/ RunApplyFilter

SpecEffects == InitEffects /\ [][NextEffects]_vars

---------------------------------------------------------------------------
(* Direct calls of the four mono effects, with the arguments               *)
(* process_effects gives them, on buffers from empty to a few seconds      *)

mono_pattern(pattern, i) ==
    CASE pattern = "impulse" -> IF i = 1 THEN ONE ELSE 0
      [] pattern = "ramp"    -> ((37 * i) % 401) - 200
      [] pattern = "loud"    -> IF i % 2 = 1 THEN (3 * ONE) \div 4 ELSE -(3 * ONE) \div 4

MonoCalls ==
    { [op |-> "mono_effect", stage |-> stage, amount |-> a,
       signal |-> Buffer([i \in 1..n |-> mono_pattern(p, i)])] :
        stage \in {"reverb", "delay", "chorus", "phaser"}, a \in {30, 50, 100},
        n \in {0, 3, EffectFrames, MonoFrames}, p \in {"impulse", "ramp", "loud"} }

InitMono ==
    /\ rng \in {0}
    /\ call \in MonoCalls
    /\ ret = NoRet
    /\ app = NoApp

RunMonoEffect ==
    /\ Pending("mono_effect")
    /\ ret' = mono_effect(call.stage, call.signal, call.amount)
    /\ UNCHANGED <<call, rng, app>>

NextMono == RunMonoEffect
SpecMono == InitMono /\ [][NextMono]_vars

---------------------------------------------------------------------------
(* Direct calls of apply_envelope *)

EnvelopeCalls ==
    { [op |-> "apply_envelope", attack |-> a, decay |-> d,
       signal |-> Buffer([i \in 1..n |-> IF p = "flat" THEN ONE ELSE mono_pattern(p, i)])] :
        a \in {0, 2, 5, 10, 30, 50, 100}, d \in {0, 30, 50, 70, 100},
        n \in 0..MaxEnvelopeFrames, p \in {"flat", "ramp"} }

InitEnvelope ==
    /\ rng \in {0}
    /\ call \in EnvelopeCalls
    /\ ret = NoRet
    /\ app = NoApp

RunApplyEnvelope ==
    /\ Pending("apply_envelope")
    /\ ret' = [outcome |-> "ok", wave |-> apply_envelope(call.signal, call.attack, call.decay)]
    /\ UNCHANGED <<call, rng, app>>

NextEnvelope == RunApplyEnvelope
SpecEnvelope == InitEnvelope /\ [][NextEnvelope]_vars

---------------------------------------------------------------------------
(* lfo.py: the oscillators.  A rate is an integer number of 1/10000 Hz and *)
(* a phase an integer number of 1/10000 cycle, so that phase += freq * dt  *)
(* is exact for a whole number of seconds dt; a depth and the value        *)
(* returned by step are fixed-point like a gain.                           *)

LfoCycle == 10 * 10 * 10 * 10

\* LFO.__init__(freq, depth, waveform)
LFO(freq, depth, waveform) ==
    [freq |-> freq, depth |-> depth, waveform |-> waveform, phase |-> 0]

\* a sawtooth read off the phase without the modulus
lfo_value_unwrapped(lfo) ==
    IF lfo.waveform = "sawtooth"
        THEN Trunc((2 * lfo.phase - LfoCycle) * lfo.depth, LfoCycle)
        ELSE Trunc(SinU(PhaseOf(lfo.phase, LfoCycle)) * lfo.depth, ONE)

\* the value LFO.step returns once the phase has been advanced
lfo_value(lfo) ==
    LET u == PhaseOf(lfo.phase, LfoCycle)
    IN  IF lfo.waveform = "sine" THEN Trunc(SinU(u) * lfo.depth, ONE)
        ELSE IF lfo.waveform = "triangle" THEN Trunc(TriangleU(u) * lfo.depth, ONE)
        ELSE IF lfo.waveform = "square" THEN Trunc(Sign(SinU(u)) * lfo.depth, ONE)
        ELSE IF lfo.waveform = "sawtooth"
            THEN Trunc((2 * (lfo.phase % LfoCycle) - LfoCycle) * lfo.depth, LfoCycle)
        ELSE 0

\* a step that advances the phase twice
lfo_step_twice(lfo, dt) ==
    LET stepped == [lfo EXCEPT !.phase = @ + 2 * lfo.freq * dt]
    IN  [lfo |-> stepped, value |-> lfo_value(stepped)]

\* LFO.step(dt): advance the phase, return the value; [lfo, value]
lfo_step(lfo, dt) ==
    LET stepped == [lfo EXCEPT !.phase = @ + lfo.freq * dt]
    IN  [lfo |-> stepped, value |-> lfo_value(stepped)]

\* The oscillators of an application are kept by name.  A handler's run is
\* followed on st = [lfos, stepped, values]: the oscillators, the names
\* stepped so far in this handler, in order, and the value each step
\* returned.  r is what the step of `name` returned.
record_step(st, name, r) ==
    [lfos    |-> [st.lfos EXCEPT ![name] = r.lfo],
     stepped |-> Append(st.stepped, name),
     values  |-> Append(st.values, r.value)]

step_named(st, name, dt) == record_step(st, name, lfo_step(st.lfos[name], dt))

\* the oscillators `names` stepped one after the other
RECURSIVE step_all(_, _, _)
step_all(st, names, dt) ==
    IF names = <<>> THEN st
    ELSE step_all(step_named(st, Head(names), dt), Tail(names), dt)

LastValue(st) == st.values[Len(st.values)]

\* LayerLFO.__init__() with its defaults, and LayerLFO.step(dt): the volume
\* oscillator, then the pan oscillator
LayerLFO(i) ==
    [n \in {<<"layer", i, "vol">>, <<"layer", i, "pan">>} |->
        IF n[3] = "vol" THEN LFO(500, ONE \div 5, "sine")
                        ELSE LFO(300, (3 * ONE) \div 10, "sine")]

LayerLFO_step(st, i, dt) ==
    step_all(st, << <<"layer", i, "vol">>, <<"layer", i, "pan">> >>, dt)

\* how many times `name` occurs in the sequence of stepped names
RECURSIVE StepCount(_, _)
StepCount(stepped, name) ==
    IF stepped = <<>> THEN 0
    ELSE (IF Head(stepped) = name THEN 1 ELSE 0) + StepCount(Tail(stepped), name)

---------------------------------------------------------------------------
(* main.py: the older front end.  It carries its own copy of the synthesis *)
(* and of the oscillators (identical to lfo.py) and a composer whose       *)
(* result is always one stereo array.  The application model follows the   *)
(* object's attributes and widgets, the oscillators and which of them a    *)
(* handler steps; the audio of a chunk is followed in the specifications   *)
(* of the direct calls.  The composer draws from the global generator, so  *)
(* after a tick its state is any of RngStates; no handler reads it, and    *)
(* the application model follows the two ends of RngStates.                *)

DURATION_CHUNK == 5

MainLfoNames ==
    {<<"reverb">>, <<"delay">>} \cup
    {<<"layer", i, k>> : i \in 0..3, k \in {"vol", "pan"}}

\* ProceduralMusicApp.__init__ of main.py
MainApp ==
    [which            |-> "main",
     tempo            |-> 60,
     scale            |-> "minor",
     instrument       |-> "sine",
     sliders          |-> [reverb |-> 30, delay |-> 30, lowpass |-> 15000, highpass |-> 20],
     previewing       |-> FALSE,
     recording        |-> FALSE,
     recording_buffer |-> 0,
     time_accumulator |-> 0,
     lfos             |-> [n \in MainLfoNames |->
                              IF n = <<"reverb">> THEN LFO(200, (3 * ONE) \div 10, "sine")
                              ELSE IF n = <<"delay">> THEN LFO(100, ONE \div 5, "sine")
                              ELSE LayerLFO(n[2])[n]],
     ticks            |-> 0]

\* for lfo in self.layer_lfos: vol_mod, pan_mod = lfo.step(dt); ...
RECURSIVE main_layer_loop(_, _, _)
main_layer_loop(st, i, dt) ==
    IF i > 3 THEN st ELSE main_layer_loop(LayerLFO_step(st, i, dt), i + 1, dt)

\* the arguments of process_effects, evaluated in order: the amounts are in
\* thousandths, (slider / 100) * (1 + lfo.step(dt))
main_effect_amounts(st, a, dt) ==
    step_all(st, << <<"reverb">>, <<"delay">> >>, dt)

\* what stream_chunk of main.py leaves, st being the run after every step
main_chunk_done(a, st, dt) ==
    [app |-> [a EXCEPT !.time_accumulator = @ + dt,
                       !.lfos = st.lfos,
                       !.recording_buffer = IF a.recording THEN @ + 1 ELSE @,
                       !.ticks = @ + 1],
     ret |-> [outcome       |-> "ok",
              stepped       |-> st.stepped,
              tempo         |-> a.tempo,
              reverb_amount |-> Trunc(a.sliders.reverb * 10 * (ONE + st.values[Len(st.values) - 1]),
                                      ONE),
              delay_amount  |-> Trunc(a.sliders.delay * 10 * (ONE + LastValue(st)), ONE)]]

\* stream_chunk of main.py
main_stream_chunk(a) ==
    main_chunk_done(a,
        main_effect_amounts(
            main_layer_loop([lfos |-> a.lfos, stepped |-> <<>>, values |-> <<>>],
                            0, DURATION_CHUNK),
            a, DURATION_CHUNK),
        DURATION_CHUNK)

---------------------------------------------------------------------------
(* gui.py: the current front end.  Its handlers are modelled on an object  *)
(* holding the attributes __init__ assigns and the widgets init_ui builds. *)
(* __init__ itself does not run to its end against lfo.py: init_ui reads   *)
(* self.scene_duration before it is assigned, and init_lfos passes the     *)
(* keywords rate= and amplitude= to LFO, whose parameters are freq and     *)
(* depth.  The oscillators are therefore taken in two readings: built with *)
(* LFO's defaults, or built with the keywords' values as freq and depth.   *)
(* An exception raised by a handler leaves the object as the handler had   *)
(* changed it up to the raise, and the timer fires again.                  *)

GuiLayerKinds == <<"volume", "pan", "timbre">>

GuiLfoNames ==
    {<<"tempo">>, <<"reverb">>, <<"delay">>, <<"chorus">>, <<"phaser">>, <<"stereo">>} \cup
    {<<"layer", i, GuiLayerKinds[k]>> : i \in 0..3, k \in 1..3}

\* the keywords of init_lfos: [rate, amplitude] of each oscillator
init_lfos(n) ==
    IF n = <<"tempo">> THEN [rate |-> 50, amplitude |-> 20 * ONE]
    ELSE IF n \in {<<"reverb">>, <<"delay">>} THEN [rate |-> 20, amplitude |-> ONE \div 2]
    ELSE IF Len(n) = 1 THEN [rate |-> 10, amplitude |-> ONE \div 2]
    ELSE IF n[3] = "volume" THEN [rate |-> 10 + 10 * n[2], amplitude |-> (3 * ONE) \div 10]
    ELSE IF n[3] = "pan" THEN [rate |-> 5 + 5 * n[2], amplitude |-> ONE \div 2]
    ELSE [rate |-> 7 + 3 * n[2], amplitude |-> ONE \div 2]

LfoReadings == {"defaults", "keywords"}

gui_lfos(reading) ==
    [n \in GuiLfoNames |->
        IF reading = "defaults" THEN LFO(500, ONE \div 5, "sine")
        ELSE LFO(init_lfos(n).rate, init_lfos(n).amplitude, "sine")]

\* A preset: what save_preset writes and load_preset_file reads
Preset(tempo, scale, instrument, use_arpeggio, reverb, delay, chorus, phaser, stereo_widen, lowpass, highpass) ==
    [tempo |-> tempo, scale |-> scale, instrument |-> instrument,
     use_arpeggio |-> use_arpeggio, reverb |-> reverb, delay |-> delay, chorus |-> chorus,
     phaser |-> phaser, stereo_widen |-> stereo_widen, lowpass |-> lowpass,
     highpass |-> highpass]

\* the contents the presets folder can have: no file, one file, two files
PresetA == Preset(90, "major", "square", FALSE, 50, 0, 20, 0, 40, 8000, 200)
PresetB == Preset(120, "pentatonic", "fm_sine", TRUE, 0, 60, 0, 30, 0, 20000, 20)
PresetFolders == {<<>>, <<PresetA>>, <<PresetA, PresetB>>}

\* the presets random.randint / random.choice can produce: the two ends of
\* every range of generate_random_preset
RandomPresets ==
    {Preset(40, "minor", "sine", TRUE, 0, 0, 0, 0, 0, 5000, 20),
     Preset(160, "chromatic", "noise_pad", FALSE, 100, 100, 100, 100, 100, 20000, 5000)}

\* ProceduralMusicApp.__init__ and init_ui of gui.py
GuiApp(reading, folder) ==
    [which                |-> "gui",
     tempo                |-> 60,
     scale                |-> "minor",
     instrument           |-> "sine",
     use_arpeggio         |-> TRUE,
     evolving             |-> FALSE,
     sliders              |-> [reverb |-> 30, delay |-> 30, chorus |-> 0, phaser |-> 0,
                               stereo |-> 0, lowpass |-> 15000, highpass |-> 20],
     session_duration     |-> 180,
     previewing           |-> FALSE,
     folder               |-> folder,
     scenes               |-> <<>>,
     random_scene_enabled |-> FALSE,
     current_scene_index  |-> 0,
     scene_duration       |-> 30,
     scene_timer          |-> 0,
     auto_scene_enabled   |-> FALSE,
     time_accumulator     |-> 0,
     lfos                 |-> gui_lfos(reading),
     lfo_attrs            |-> [n \in GuiLfoNames |-> init_lfos(n)],
     ticks                |-> 0]

\* QSlider.setValue keeps the value inside the slider's range
Clamp(v, lo, hi) == Min(Max(v, lo), hi)

\* load_preset_file: every widget is set from the preset; the tempo slider
\* reports its new value to update_tempo
apply_preset(a, preset) ==
    [a EXCEPT !.tempo        = Clamp(preset.tempo, 30, 200),
              !.scale        = IF preset.scale \in DOMAIN SCALES THEN preset.scale ELSE @,
              !.instrument   = IF preset.instrument \in INSTRUMENTS THEN preset.instrument ELSE @,
              !.use_arpeggio = preset.use_arpeggio,
              !.sliders      = [reverb   |-> Clamp(preset.reverb, 0, 100),
                                delay    |-> Clamp(preset.delay, 0, 100),
                                chorus   |-> Clamp(preset.chorus, 0, 100),
                                phaser   |-> Clamp(preset.phaser, 0, 100),
                                stereo   |-> Clamp(preset.stereo_widen, 0, 100),
                                lowpass  |-> Clamp(preset.lowpass, 20, 20000),
                                highpass |-> Clamp(preset.highpass, 20, 20000)]]

\* the [rate, amplitude] generate_random_scene assigns: the low or the high
\* end of each random.uniform range.  They are stored in attributes named
\* rate and amplitude, which LFO.step does not read.
random_lfo_attrs(n, end) ==
    LET pick(lo, hi) == IF end = "low" THEN lo ELSE hi
    IN  IF n = <<"tempo">> THEN [rate |-> pick(20, 100), amplitude |-> pick(5 * ONE, 25 * ONE)]
        ELSE IF n \in {<<"reverb">>, <<"delay">>}
            THEN [rate |-> pick(10, 50), amplitude |-> pick(ONE \div 5, (3 * ONE) \div 5)]
        ELSE IF Len(n) = 1
            THEN [rate |-> pick(5, 30), amplitude |-> pick(ONE \div 10, ONE \div 2)]
        ELSE IF n[3] = "volume"
            THEN [rate |-> pick(5, 50), amplitude |-> pick(ONE \div 10, ONE \div 2)]
        ELSE IF n[3] = "pan"
            THEN [rate |-> pick(2, 30), amplitude |-> pick((3 * ONE) \div 10, (7 * ONE) \div 10)]
        ELSE [rate |-> pick(1, 30), amplitude |-> pick(ONE \div 10, ONE \div 2)]

\* generate_random_scene: the objects it can leave
generate_random_scene(a) ==
    { [apply_preset(a, p) EXCEPT !.lfo_attrs = [n \in GuiLfoNames |-> random_lfo_attrs(n, end)]] :
        p \in RandomPresets, end \in {"low", "high"} }

\* load_scene_list
load_scene_list(a) ==
    [a EXCEPT !.scenes = [k \in 1..Len(a.folder) |-> k], !.current_scene_index = 0]

\* advance_scene: the objects it can leave.  A scene is the position of its
\* file in the folder.
advance_scene(a) ==
    IF a.random_scene_enabled THEN generate_random_scene(a)
    ELSE IF a.scenes = <<>> THEN {a}
    ELSE LET idx == (a.current_scene_index + 1) % Len(a.scenes)
         IN  {apply_preset([a EXCEPT !.current_scene_index = idx], a.folder[a.scenes[idx + 1]])}

---------------------------------------------------------------------------
\* a scene switch that waits for the timer to pass scene_duration
gui_scene_switch_late(a, dt) ==
    IF ~a.auto_scene_enabled THEN {a}
    ELSE LET a1 == [a EXCEPT !.scene_timer = @ + dt]
         IN  IF a1.scene_timer > a1.scene_duration
                 THEN advance_scene([a1 EXCEPT !.scene_timer = 0])
                 ELSE {a1}

\* Scene switching of stream_chunk, lines 248-252: the objects it can leave
gui_scene_switch(a, dt) ==
    IF ~a.auto_scene_enabled THEN {a}
    ELSE LET a1 == [a EXCEPT !.scene_timer = @ + dt]
         IN  IF a1.scene_timer >= a1.scene_duration
                 THEN advance_scene([a1 EXCEPT !.scene_timer = 0])
                 ELSE {a1}

\* a tempo modulation without the floor of 20
modulated_tempo_unfloored(st, a) ==
    [st |-> st, mod_tempo |-> Trunc(a.tempo * ONE + LastValue(st), ONE)]

\* Tempo modulation, lines 255-259: max(int(tempo + lfo_tempo.step(dt)), 20);
\* [st, mod_tempo]
modulated_tempo(st, a) ==
    [st |-> st, mod_tempo |-> Max(Trunc(a.tempo * ONE + LastValue(st), ONE), 20)]

gui_tempo(st, a, dt) ==
    IF a.evolving THEN modulated_tempo(step_named(st, <<"tempo">>, dt), a)
    ELSE [st |-> st, mod_tempo |-> a.tempo]

\* the three steps of one pass of the layer loop, lines 275-278
gui_layer_steps(st, i, dt) ==
    step_all(st, << <<"layer", i % 4, "volume">>, <<"layer", i % 4, "pan">>,
                    <<"layer", i % 4, "timbre">> >>, dt)

\* Global evolving effects, lines 297-308: the amounts in thousandths,
\* min(max(slider / 100 + lfo.step(dt), 0), 1); base is the number of steps
\* taken before the five of the effects
clamped_amounts(st, a, base) ==
    [st |-> st,
     amounts |-> [reverb |-> Clamp(a.sliders.reverb * 10 + st.values[base + 1], 0, ONE),
                  delay  |-> Clamp(a.sliders.delay * 10 + st.values[base + 2], 0, ONE),
                  chorus |-> Clamp(a.sliders.chorus * 10 + st.values[base + 3], 0, ONE),
                  phaser |-> Clamp(a.sliders.phaser * 10 + st.values[base + 4], 0, ONE),
                  stereo |-> Clamp(a.sliders.stereo * 10 + st.values[base + 5], 0, ONE)]]

gui_effect_amounts(st, a, dt) ==
    IF a.evolving
        THEN clamped_amounts(
                 step_all(st, << <<"reverb">>, <<"delay">>, <<"chorus">>, <<"phaser">>,
                                 <<"stereo">> >>, dt),
                 a, Len(st.values))
        ELSE [st |-> st,
              amounts |-> [reverb |-> a.sliders.reverb * 10, delay |-> a.sliders.delay * 10,
                           chorus |-> a.sliders.chorus * 10, phaser |-> a.sliders.phaser * 10,
                           stereo |-> a.sliders.stereo * 10]]

\* what one chunk of the gui leaves: how it ended, the oscillators, the
\* names stepped, the tempo composed at, the passes of the layer loop begun
chunk_made(outcome, st, mod_tempo, layers, rows) ==
    [outcome |-> outcome, lfos |-> st.lfos, stepped |-> st.stepped,
     mod_tempo |-> mod_tempo, layers |-> layers, rows |-> rows]

\* The layer loop and what follows it, lines 273-308.  The composer is
\* called with supported names only (both come from combo boxes) and returns
\* one array of int(dt * rate) rows of two samples, whatever return_layers
\* is.  The loop enumerates that array, so each `layer` is one row: the
\* first pass steps the three oscillators of layer 0 and
\* np.mean(layer, axis=1) then raises AxisError, a row having one axis only.
gui_layer_loop(t, a, dt, rows) ==
    IF rows > 0
        THEN chunk_made("AxisError", gui_layer_steps(t.st, 0, dt), t.mod_tempo, 1, rows)
        ELSE chunk_made("ok", gui_effect_amounts(t.st, a, dt).st, t.mod_tempo, 0, rows)

\* One chunk of the gui: tempo modulation, the composer, the layer loop and
\* the effect amounts (stream_chunk lines 254-308; export_full_session
\* repeats them at lines 526-576)
gui_make_chunk(a, dt) ==
    gui_layer_loop(gui_tempo([lfos |-> a.lfos, stepped |-> <<>>, values |-> <<>>], a, dt),
                   a, dt, n_samples(Dur(dt, 1)))

\* what stream_chunk leaves on the object a, r being the chunk made
stream_chunk_done(a, r) ==
    [app |-> [a EXCEPT !.lfos = r.lfos, !.ticks = @ + 1],
     ret |-> [outcome |-> r.outcome, stepped |-> r.stepped, tempo |-> r.mod_tempo,
              layers |-> r.layers, rows |-> r.rows]]

\* stream_chunk of gui.py: the [app, ret] it can end in
gui_stream_chunk(a) ==
    { stream_chunk_done(a1, gui_make_chunk(a1, DURATION_CHUNK)) :
        a1 \in gui_scene_switch([a EXCEPT !.time_accumulator = @ + DURATION_CHUNK],
                                DURATION_CHUNK) }

\* Scene switching of export_full_session for chunk i, lines 522-524
export_scene_switch(a, i, dt) ==
    IF a.auto_scene_enabled /\ (i * dt) % a.scene_duration = 0
        THEN advance_scene([a EXCEPT !.scene_timer = 0])
        ELSE {a}

\* the loop of export_full_session from chunk i on; done is the sequence,
\* one entry per chunk begun, of the names stepped for that chunk, and r
\* the chunk made for chunk i
RECURSIVE export_loop(_, _, _, _)
RECURSIVE export_chunk(_, _, _, _, _)
export_chunk(a, r, i, num_chunks, done) ==
    IF r.outcome # "ok"
        THEN {[app |-> [a EXCEPT !.lfos = r.lfos],
               ret |-> [outcome |-> r.outcome, chunks |-> Append(done, r.stepped)]]}
        ELSE export_loop([a EXCEPT !.lfos = r.lfos], i + 1, num_chunks,
                         Append(done, r.stepped))

export_loop(a, i, num_chunks, done) ==
    IF i >= num_chunks
        THEN {[app |-> a, ret |-> [outcome |-> "ok", chunks |-> done]]}
        ELSE UNION { export_chunk(a1, gui_make_chunk(a1, DURATION_CHUNK), i, num_chunks, done) :
                       a1 \in export_scene_switch(a, i, DURATION_CHUNK) }

\* export_full_session once a file name has been chosen
export_full_session(a) ==
    { [app |-> [e.app EXCEPT !.ticks = @ + 1], ret |-> e.ret] :
        e \in export_loop([a EXCEPT !.scene_timer = 0], 0,
                          a.session_duration \div DURATION_CHUNK, <<>>) }

---------------------------------------------------------------------------
(* The two applications run: the user works the widgets, the timer calls   *)
(* stream_chunk every DURATION_CHUNK seconds while the preview is on.      *)

SceneDurations == {5, 10}
RngAfterChunk == {0, RngMod - 1}

InitApp ==
    /\ rng \in {0}
    /\ call = [op |-> "none"]
    /\ ret = NoRet
    /\ app \in {MainApp} \cup
               {GuiApp(reading, folder) : reading \in LfoReadings, folder \in PresetFolders}

IsGui == app.which = "gui"
IsMain == app.which = "main"

\* the timer of main.py fires
MainStreamChunk ==
    /\ IsMain /\ app.previewing /\ app.ticks < MaxTicks
    /\ \E r \in {main_stream_chunk(app)} : app' = r.app /\ ret' = r.ret
    /\ call' = [op |-> "main.stream_chunk"]
    /\ rng' \in RngAfterChunk

\* toggle_live_preview of main.py: switching the preview on starts the timer
\* and calls stream_chunk at once
MainTogglePreview ==
    /\ IsMain
    /\ IF app.previewing
           THEN /\ app' = [app EXCEPT !.previewing = FALSE]
                /\ ret' = [outcome |-> "ok", stepped |-> <<>>]
                /\ UNCHANGED rng
           ELSE /\ app.ticks < MaxTicks
                /\ \E r \in {main_stream_chunk([app EXCEPT !.previewing = TRUE])} :
                       app' = r.app /\ ret' = r.ret
                /\ rng' \in RngAfterChunk
    /\ call' = [op |-> "main.toggle_live_preview"]

\* toggle_recording of main.py: the buffer is emptied when recording starts
\* and, once written to the chosen file, when it stops
MainToggleRecording ==
    /\ IsMain
    /\ app' = [app EXCEPT !.recording = ~@, !.recording_buffer = 0]
    /\ call' = [op |-> "main.toggle_recording"]
    /\ ret' = [outcome |-> "ok", stepped |-> <<>>]
    /\ UNCHANGED rng

\* the timer of gui.py fires
GuiStreamChunk ==
    /\ IsGui /\ app.previewing /\ app.ticks < MaxTicks
    /\ \E r \in gui_stream_chunk(app) : app' = r.app /\ ret' = r.ret
    /\ call' = [op |-> "gui.stream_chunk"]
    /\ rng' \in RngAfterChunk

\* toggle_live_preview of gui.py
GuiTogglePreview ==
    /\ IsGui
    /\ IF app.previewing
           THEN /\ app' = [app EXCEPT !.previewing = FALSE]
                /\ ret' = [outcome |-> "ok", stepped |-> <<>>]
                /\ UNCHANGED rng
           ELSE /\ app.ticks < MaxTicks
                /\ \E r \in gui_stream_chunk([app EXCEPT !.previewing = TRUE]) :
                       app' = r.app /\ ret' = r.ret
                /\ rng' \in RngAfterChunk
    /\ call' = [op |-> "gui.toggle_live_preview"]

\* the export button, and the file dialog answered or dismissed
GuiExportFullSession ==
    /\ IsGui /\ app.ticks < MaxTicks
    /\ \E chosen \in BOOLEAN :
          IF chosen
              THEN /\ \E r \in export_full_session(app) : app' = r.app /\ ret' = r.ret
                   /\ rng' \in RngAfterChunk
              ELSE /\ ret' = [outcome |-> "cancelled", chunks |-> <<>>]
                   /\ UNCHANGED <<app, rng>>
    /\ call' = [op |-> "gui.export_full_session"]

\* the user ticks or clears "Enable Evolving Preset"
GuiSetEvolving ==
    /\ IsGui
    /\ app' = [app EXCEPT !.evolving = ~@]
    /\ call' = [op |-> "gui.evolving_toggle"]
    /\ ret' = [outcome |-> "ok", stepped |-> <<>>]
    /\ UNCHANGED rng

\* toggle_auto_scene, lines 443-445
toggle_auto_scene(a, checked) == load_scene_list([a EXCEPT !.auto_scene_enabled = checked])

GuiToggleAutoScene ==
    /\ IsGui
    /\ app' = toggle_auto_scene(app, ~app.auto_scene_enabled)
    /\ call' = [op |-> "gui.toggle_auto_scene"]
    /\ ret' = [outcome |-> "ok", stepped |-> <<>>]
    /\ UNCHANGED rng

\* toggle_random_scene, lines 465-469: checking the auto-scene box from the
\* handler makes the box report its change to toggle_auto_scene
toggle_random_scene(a, checked) ==
    LET a1 == [a EXCEPT !.random_scene_enabled = checked]
    IN  IF ~checked THEN a1
        ELSE IF a.auto_scene_enabled THEN a1
        ELSE toggle_auto_scene(a1, TRUE)

GuiToggleRandomScene ==
    /\ IsGui
    /\ app' = toggle_random_scene(app, ~app.random_scene_enabled)
    /\ call' = [op |-> "gui.toggle_random_scene"]
    /\ ret' = [outcome |-> "ok", stepped |-> <<>>]
    /\ UNCHANGED rng

\* update_scene_duration: the slider is moved
GuiUpdateSceneDuration ==
    /\ IsGui
    /\ \E value \in SceneDurations \ {app.scene_duration} :
          app' = [app EXCEPT !.scene_duration = value]
    /\ call' = [op |-> "gui.update_scene_duration"]
    /\ ret' = [outcome |-> "ok", stepped |-> <<>>]
    /\ UNCHANGED rng

NextApp ==
    \/ MainStreamChunk
    \/ MainTogglePreview
    \/ MainToggleRecording
    \/ GuiStreamChunk
    \/ GuiTogglePreview
    \/ GuiExportFullSession
    \/ GuiSetEvolving
    \/ GuiToggleAutoScene
    \/ GuiToggleRandomScene
    \/ GuiUpdateSceneDuration

SpecApp == InitApp /\ [][NextApp]_vars

---------------------------------------------------------------------------
(* The scene list of gui.py on its own: the user ticks and clears the two  *)
(* scene boxes and the timer's handlers call advance_scene.  `advances`    *)
(* counts the calls of advance_scene that took a scene from the list since *)
(* load_scene_list last ran.                                               *)

PresetC == Preset(150, "chromatic", "noise_pad", FALSE, 10, 10, 10, 10, 10, 12000, 100)
SceneFolders == PresetFolders \cup {<<PresetA, PresetB, PresetC>>}

InitScene ==
    /\ rng \in {0}
    /\ call = [op |-> "__init__"]
    /\ ret = NoRet
    /\ app \in {[which |-> "scenes", gui |-> GuiApp("keywords", folder), advances |-> 0] :
                   folder \in SceneFolders}

\* the auto-scene box is ticked or cleared
SceneToggleAuto ==
    /\ app' = [app EXCEPT !.gui = toggle_auto_scene(@, ~@.auto_scene_enabled), !.advances = 0]
    /\ call' = [op |-> "toggle_auto_scene"]
    /\ ret' = [outcome |-> "ok"]
    /\ UNCHANGED rng

\* the random-scene box is ticked or cleared; ticking it with the auto-scene
\* box clear runs load_scene_list
SceneToggleRandom ==
    /\ app' = [app EXCEPT !.gui = toggle_random_scene(@, ~@.random_scene_enabled),
                          !.advances = IF app.gui.random_scene_enabled \/ app.gui.auto_scene_enabled
                                           THEN @ ELSE 0]
    /\ call' = [op |-> "toggle_random_scene"]
    /\ ret' = [outcome |-> "ok"]
    /\ UNCHANGED rng

\* advance_scene, called by stream_chunk and export_full_session while
\* automatic switching is enabled
SceneAdvance ==
    /\ app.gui.auto_scene_enabled /\ app.advances < MaxAdvances
    /\ \E a1 \in advance_scene(app.gui) :
          app' = [app EXCEPT !.gui = a1,
                             !.advances = IF app.gui.random_scene_enabled \/ app.gui.scenes = <<>>
                                              THEN @ ELSE @ + 1]
    /\ call' = [op |-> "advance_scene"]
    /\ ret' = [outcome |-> "ok"]
    /\ UNCHANGED rng

NextScene == SceneToggleAuto \/ SceneToggleRandom \/ SceneAdvance
SpecScene == InitScene /\ [][NextScene]_vars

---------------------------------------------------------------------------
(* Direct calls of chord_inversion and generate_arpeggio *)

ChordPitches == {60, 63, 67, 70}
InversionCalls ==
    { [op |-> "chord_inversion", chord |-> <<a, b, c>>, inversion |-> k] :
        a \in ChordPitches, b \in ChordPitches, c \in ChordPitches, k \in 0..3 }

ArpDurations == {Dur(8, 1000), Dur(10, 1000), Dur(16, 1000)}
ArpTempos == {15000, 24000}
ArpCalls ==
    { [op |-> "generate_arpeggio", chord |-> ch, duration |-> d, instrument |-> inst,
       volume |-> ONE \div 20, style |-> style, tempo |-> tempo] :
        ch \in {<<60, 63, 67>>, <<67, 72, 75>>}, d \in ArpDurations,
        inst \in {"sine", "square"}, style \in {ArpStyles[j] : j \in 1..3}, tempo \in ArpTempos }

InitArp ==
    /\ rng \in RngStates
    /\ call \in InversionCalls \cup ArpCalls
    /\ ret = NoRet
    /\ app = NoApp

RunChordInversion ==
    /\ Pending("chord_inversion")
    /\ ret' = [outcome |-> "ok", chord |-> chord_inversion(call.chord, call.inversion)]
    /\ UNCHANGED <<rng, call, app>>

RunGenerateArpeggio ==
    /\ Pending("generate_arpeggio")
    /\ \E r \in {generate_arpeggio(call.chord, call.duration, call.instrument, call.volume, call.style, call.tempo, rng)} :
          ret' = with_rng0(r, rng) /\ rng' = r.rng
    /\ UNCHANGED <<call, app>>

NextArp == RunChordInversion \/ RunGenerateArpeggio
SpecArp == InitArp /\ [][NextArp]_vars

---------------------------------------------------------------------------
(* Direct use of the oscillators of lfo.py: a LayerLFO, and one further    *)
(* LFO built with any waveform, rate and depth.  The caller steps them,    *)
(* reads their attributes, and assigns the attributes rate and amplitude   *)
(* the way generate_random_scene does.                                     *)

LfoWaveforms == {"sine", "triangle", "square", "sawtooth", "ramp"}
LfoRates == {-500, 300, 2500}
LfoDepths == {ONE \div 5, 20 * ONE}
LfoDts == {1, DURATION_CHUNK}
SoloName == <<"tempo">>

\* the run of a handler before it has stepped anything
handler_start(lfos) == [lfos |-> lfos, stepped |-> <<>>, values |-> <<>>]

\* LayerLFO(): its two oscillators are built
InitLfo ==
    /\ rng \in {0}
    /\ call = [op |-> "LayerLFO.__init__"]
    /\ ret = NoRet
    /\ app = [which |-> "lfo", lfos |-> LayerLFO(0), lfo_attrs |-> <<>>, ticks |-> 0]

\* LFO(freq, depth, waveform): a further oscillator is built
LfoConstruct ==
    /\ SoloName \notin DOMAIN app.lfos
    /\ \E f \in LfoRates, d \in LfoDepths, w \in LfoWaveforms :
          /\ app' = [app EXCEPT !.lfos = (SoloName :> LFO(f, d, w)) @@ @]
          /\ call' = [op |-> "LFO.__init__", freq |-> f, depth |-> d, waveform |-> w]
    /\ ret' = [outcome |-> "ok", stepped |-> <<>>, values |-> <<>>]
    /\ UNCHANGED rng

\* lfo.step(dt) on one oscillator
LfoStep ==
    /\ app.ticks < MaxLfoSteps
    /\ \E n \in DOMAIN app.lfos, dt \in LfoDts :
          /\ call' = [op |-> "LFO.step", name |-> n, dt |-> dt]
          /\ \E st \in {step_named(handler_start(app.lfos), n, dt)} :
                /\ app' = [app EXCEPT !.lfos = st.lfos, !.ticks = @ + 1]
                /\ ret' = [outcome |-> "ok", stepped |-> st.stepped, values |-> st.values]
    /\ UNCHANGED rng

\* layer.step(dt) on the LayerLFO
LayerLfoStep ==
    /\ app.ticks < MaxLfoSteps
    /\ \E dt \in LfoDts :
          /\ call' = [op |-> "LayerLFO.step", dt |-> dt]
          /\ \E st \in {LayerLFO_step(handler_start(app.lfos), 0, dt)} :
                /\ app' = [app EXCEPT !.lfos = st.lfos, !.ticks = @ + 1]
                /\ ret' = [outcome |-> "ok", stepped |-> st.stepped, values |-> st.values]
    /\ UNCHANGED rng

\* the caller reads lfo.phase, lfo.freq and lfo.depth
LfoRead ==
    /\ \E n \in DOMAIN app.lfos :
          /\ call' = [op |-> "read", name |-> n]
          /\ ret' = [outcome |-> "ok", stepped |-> <<>>,
                     values |-> <<app.lfos[n].phase, app.lfos[n].freq, app.lfos[n].depth>>]
    /\ UNCHANGED <<rng, app>>

\* the caller assigns lfo.rate and lfo.amplitude of every oscillator, as
\* generate_random_scene does
LfoRandomise ==
    /\ \E end \in {"low", "high"} :
          app' = [app EXCEPT !.lfo_attrs = [n \in DOMAIN app.lfos |-> random_lfo_attrs(n, end)]]
    /\ call' = [op |-> "randomise"]
    /\ ret' = [outcome |-> "ok", stepped |-> <<>>, values |-> <<>>]
    /\ UNCHANGED rng

NextLfo == LfoConstruct \/ LfoStep \/ LayerLfoStep \/ LfoRead \/ LfoRandomise
SpecLfo == InitLfo /\ [][NextLfo]_vars

---------------------------------------------------------------------------
(* The two evolving-preset blocks of stream_chunk and export_full_session  *)
(* on their own: the tempo modulation and the effect amounts, run on an    *)
(* object with any slider values and with oscillators that have been       *)
(* stepped any number of times before.                                     *)

EvolveTempos == {30, 31, 60, 200}
EvolveSliders == {0, 50, 100}
EvolveSteps == {0, 2, 9, 24, 29, 49, 74, 124, 149}

\* the oscillators after k steps of dt seconds each
lfos_after(lfos, k, dt) ==
    [n \in DOMAIN lfos |-> [lfos[n] EXCEPT !.phase = k * lfos[n].freq * dt]]

EvolveApp(reading, tempo, slider, evolving, k) ==
    [GuiApp(reading, <<>>) EXCEPT
        !.tempo = tempo, !.evolving = evolving,
        !.sliders = [@ EXCEPT !.reverb = slider, !.delay = 100 - slider, !.chorus = slider,
                              !.phaser = 100 - slider, !.stereo = slider],
        !.lfos = lfos_after(@, k, DURATION_CHUNK)]

InitEvolve ==
    /\ rng \in {0}
    /\ call \in {[op |-> "tempo_modulation"], [op |-> "effect_amounts"]}
    /\ ret = NoRet
    /\ app \in {EvolveApp(reading, tempo, slider, evolving, k) :
                   reading \in LfoReadings, tempo \in EvolveTempos, slider \in EvolveSliders,
                   evolving \in BOOLEAN, k \in EvolveSteps}

\* the tempo modulation, lines 254-259 and 526-531
RunTempoModulation ==
    /\ Pending("tempo_modulation")
    /\ \E t \in {gui_tempo(handler_start(app.lfos), app, DURATION_CHUNK)} :
          /\ app' = [app EXCEPT !.lfos = t.st.lfos]
          /\ ret' = [outcome |-> "ok", stepped |-> t.st.stepped, values |-> t.st.values,
                     tempo |-> t.mod_tempo]
    /\ UNCHANGED <<call, rng>>

\* the effect amounts, lines 296-308 and 564-576
RunEffectAmounts ==
    /\ Pending("effect_amounts")
    /\ \E e \in {gui_effect_amounts(handler_start(app.lfos), app, DURATION_CHUNK)} :
          /\ app' = [app EXCEPT !.lfos = e.st.lfos]
          /\ ret' = [outcome |-> "ok", stepped |-> e.st.stepped, values |-> e.st.values,
                     amounts |-> e.amounts]
    /\ UNCHANGED <<call, rng>>

NextEvolve == RunTempoModulation \/ RunEffectAmounts
SpecEvolve == InitEvolve /\ [][NextEvolve]_vars

---------------------------------------------------------------------------
(* Claims about generate_tone and generate_procedural_chunk *)

IsTone == Returned("generate_tone")
IsChunk == Returned("generate_procedural_chunk")

\* the frame counts of the requested duration, from the call's arguments
FramesFloor == (SAMPLE_RATE * call.duration.n) \div call.duration.d
FramesRound == (2 * SAMPLE_RATE * call.duration.n + call.duration.d) \div (2 * call.duration.d)
BeatsOfCall == (call.duration.n * call.tempo) \div (call.duration.d * 60)

SupportedScales == {"major", "minor", "pentatonic", "chromatic"}

IsStereo(chunk) == \A i \in 1..Len(chunk) : Len(chunk[i]) = 2

C2_UnknownInstrumentInvalidParameter ==
    (IsTone /\ call.instrument \notin INSTRUMENTS) => ret.outcome = "InvalidParameter"

\* C3: generate_procedural_chunk with a scale name outside the four
\* supported ones fails with the error of the scale lookup (KeyError, the
\* program's configuration error) before any draw, and produces no chunk.
C3_UnknownScaleFails ==
    (IsChunk /\ call.scale \notin SupportedScales)
        => (ret.outcome = "KeyError" /\ ret.kind = "none" /\ ret.chunk = <<>>
            /\ ret.notes = <<>> /\ rng = ret.rng0)

C3_Witness ==
    IsChunk /\ call.scale = "blues" /\ ret.outcome = "KeyError" /\ BeatsOfCall > 0

\* C4: with return_layers = TRUE generate_procedural_chunk returns four
\* separate layer buffers (drone, chord, melody, noise) instead of one mixed
\* stereo chunk.
C4_FourLayersReturned ==
    (IsChunk /\ call.return_layers /\ ret.outcome = "ok") => ret.kind = "layers"

\* C9: when the beat count floor(duration/60 x tempo) is 0,
\* generate_procedural_chunk raises no error (whatever the instrument) and
\* returns a stereo buffer of the chunk's frame count whose content is
\* exactly the clipped, panned noise layer: no note is written.
C9_ZeroBeatsNoiseOnly ==
    (IsChunk /\ call.scale \in SupportedScales /\ BeatsOfCall = 0)
        => /\ ret.outcome = "ok"
           /\ ret.notes = <<>>
           /\ Len(ret.chunk) = FramesFloor
           /\ Len(ret.noise) = FramesFloor
           /\ \A i \in 1..Len(ret.chunk) :
                 LET v == Clip1(ret.noise[i])
                 IN  ret.chunk[i] = << Trunc(v * (ONE - ret.pan), 2 * ONE),
                                       Trunc(v * (ONE + ret.pan), 2 * ONE) >>

C9_Witness ==
    /\ IsChunk /\ BeatsOfCall = 0 /\ ret.outcome = "ok"
    /\ call.instrument = "organ"
    /\ \E i \in 1..Len(ret.chunk) : ret.chunk[i][1] # 0

\* C10 (as stated): for every supported waveform generate_tone returns a
\* buffer of length round(duration x rate) with every sample in
\* [-volume, volume].
C10_RoundedAndBounded ==
    (IsTone /\ call.instrument \in INSTRUMENTS)
        => /\ ret.outcome = "ok"
           /\ Len(ret.wave) = FramesRound
           /\ \A i \in 1..Len(ret.wave) : Abs(ret.wave[i]) <= call.volume

\* C10 (amended): the buffer has floor(duration x rate) samples, and for
\* sine, square, triangle, sawtooth and fm_sine every sample lies in
\* [-volume, volume]; noise_pad (enveloped Gaussian noise) is not bounded.
C10_TruncatedAndBounded ==
    (IsTone /\ call.instrument \in INSTRUMENTS)
        => /\ ret.outcome = "ok"
           /\ Len(ret.wave) = FramesFloor
           /\ call.instrument # "noise_pad"
                 => \A i \in 1..Len(ret.wave) : Abs(ret.wave[i]) <= call.volume

\* a sawtooth in its falling half, at a duration whose frame count is not
\* an integer
C10_Witness ==
    /\ IsTone /\ call.instrument = "sawtooth" /\ ret.outcome = "ok"
    /\ FramesRound # FramesFloor
    /\ \E i \in 1..Len(ret.wave) : ret.wave[i] < 0

---------------------------------------------------------------------------
(* Claims about the effect chain *)

IsEffects == Returned("process_effects") /\ ret.outcome = "ok"
IsFilter == Returned("apply_filter")

InRange(chunk) ==
    \A i \in 1..Len(chunk) : Abs(chunk[i][1]) <= ONE /\ Abs(chunk[i][2]) <= ONE

\* C6: every sample is within [-1, 1] after each stage of the effect chain
\* taken separately (reverb, delay, chorus, phaser, stereo-widen, low-pass,
\* high-pass), for a chunk that enters the chain within [-1, 1].
C6_EveryStageInRange ==
    (IsEffects /\ InRange(call.chunk))
        => /\ InRange(ret.after.reverb) /\ InRange(ret.after.delay)
           /\ InRange(ret.after.chorus) /\ InRange(ret.after.phaser)
           /\ InRange(ret.after.widen)
           /\ InRange(ret.after.low) /\ InRange(ret.after.high)

\* C7 (as stated): apply_filter called with a cutoff <= 20, for either
\* filter type, returns its input unchanged.
C7_ApplyFilterBypass ==
    (IsFilter /\ call.cutoff <= 20) => ret.out = call.chunk

\* C7 (amended): the bypass is the test of process_effects, not of
\* apply_filter: with lowpass_cutoff <= 20 the low-pass stage hands on the
\* chunk exactly as the stereo-widen stage left it, and with
\* highpass_cutoff <= 20 the high-pass stage hands on the chunk exactly as the
\* low-pass stage left it.
C7_ChainBypassesFilter ==
    IsEffects
        => /\ call.lowpass_cutoff <= 20 => ret.after.low = ret.after.widen
           /\ call.highpass_cutoff <= 20 => ret.after.high = ret.after.low

\* both cutoffs at 20 behind a stage that changed the chunk
C7_Witness ==
    /\ IsEffects
    /\ call.lowpass_cutoff = 20 /\ call.highpass_cutoff = 20
    /\ call.stereo_widen > 0 /\ ret.after.widen # call.chunk
    /\ ret.after.high = ret.after.widen

\* C8: process_effects with every amount 0 and both cutoffs <= 20 returns the
\* input with each sample clipped to [-1, 1]; and a stage whose amount is 0
\* leaves the chunk exactly as the preceding stage produced it.
C8_ZeroAmountIsBypass ==
    IsEffects
        => /\ ( /\ call.reverb_amount = 0 /\ call.delay_amount = 0 /\ call.chorus_amount = 0
                /\ call.phaser_amount = 0 /\ call.stereo_widen = 0
                /\ call.lowpass_cutoff <= 20 /\ call.highpass_cutoff <= 20 )
              => /\ Len(ret.out) = Len(call.chunk)
                 /\ \A i \in 1..Len(call.chunk) :
                       ret.out[i] = <<Clip1(call.chunk[i][1]), Clip1(call.chunk[i][2])>>
           /\ call.reverb_amount = 0 => ret.after.reverb = call.chunk
           /\ call.delay_amount = 0 => ret.after.delay = ret.after.reverb
           /\ call.chorus_amount = 0 => ret.after.chorus = ret.after.delay
           /\ call.phaser_amount = 0 => ret.after.phaser = ret.after.chorus
           /\ call.stereo_widen = 0 => ret.after.widen = ret.after.phaser

\* every amount 0 and both filters disabled, on a chunk the final clip changes
C8_Witness ==
    /\ IsEffects
    /\ call.reverb_amount = 0 /\ call.delay_amount = 0 /\ call.chorus_amount = 0
    /\ call.phaser_amount = 0 /\ call.stereo_widen = 0
    /\ call.lowpass_cutoff <= 20 /\ call.highpass_cutoff <= 20
    /\ ret.after.high = call.chunk
    /\ ret.out # call.chunk

---------------------------------------------------------------------------
(* Claims about the chunk-generation tick of the applications *)

IsTick == call.op \in {"gui.stream_chunk", "main.stream_chunk"}
IsExport == call.op = "gui.export_full_session" /\ ret.outcome # "cancelled"
SteppedOnce(stepped) == \A n \in DOMAIN app.lfos : StepCount(stepped, n) = 1

\* What gui_layer_loop relies on, checked on the direct calls of the
\* composer: with a supported scale and instrument the composer returns a
\* stereo array of int(duration * rate) rows.
ComposerReturnsArray ==
    (IsChunk /\ call.scale \in DOMAIN SCALES /\ call.instrument \in INSTRUMENTS)
        => (ret.outcome = "ok" /\ ret.kind = "stereo" /\ Len(ret.chunk) = n_samples(call.duration))

\* C5: in every chunk-generation tick (stream_chunk of either application,
\* and each chunk of export_full_session) every oscillator the application
\* owns has step invoked exactly once, whatever the toggles are.
C5_EveryOscillatorSteppedOnce ==
    /\ IsTick => SteppedOnce(ret.stepped)
    /\ IsExport => \A k \in 1..Len(ret.chunks) : SteppedOnce(ret.chunks[k])

---------------------------------------------------------------------------
(* Claims about the oscillators *)

IsLfo == app.which = "lfo"
IsLfoStep == IsLfo /\ call.op \in {"LFO.step", "LayerLFO.step"}

\* C11: an oscillator's phase changes only inside its own step(dt), where
\* it increases by exactly rate * dt cycles (2 * pi * rate * dt radians);
\* building another oscillator, reading attributes, stepping a different
\* oscillator (the sibling inside a LayerLFO included) and the caller's
\* assignment of rate and amplitude leave it unchanged.  A new oscillator
\* starts at phase 0.
C11_PhaseOwnedByStep ==
    [][IsLfo =>
         /\ \A n \in DOMAIN app.lfos :
               IF \/ call'.op = "LFO.step" /\ call'.name = n
                  \/ call'.op = "LayerLFO.step" /\ n[1] = "layer"
                   THEN app'.lfos[n].phase = app.lfos[n].phase + app.lfos[n].freq * call'.dt
                   ELSE app'.lfos[n].phase = app.lfos[n].phase
         /\ \A n \in DOMAIN app'.lfos \ DOMAIN app.lfos : app'.lfos[n].phase = 0]_vars

\* the volume oscillator of the LayerLFO has just been stepped on its own,
\* next to a sibling still at phase 0, a further oscillator and assigned
\* rate and amplitude attributes
C11_Witness ==
    /\ IsLfo /\ call.op = "LFO.step" /\ call.name = <<"layer", 0, "vol">>
    /\ app.lfos[<<"layer", 0, "vol">>].phase > 0
    /\ app.lfos[<<"layer", 0, "pan">>].phase = 0
    /\ SoloName \in DOMAIN app.lfos
    /\ app.lfo_attrs # <<>>

\* C12: for every oscillator waveform (sine, triangle, square, sawtooth),
\* rate, dt and number of preceding steps, the value step returns lies in
\* [-depth, depth].
C12_StepValueWithinDepth ==
    IsLfoStep =>
        \A k \in 1..Len(ret.values) :
            Abs(ret.values[k]) <= app.lfos[ret.stepped[k]].depth

\* a sawtooth past its first cycle, after earlier steps, returning a value
\* other than 0
C12_Witness ==
    /\ IsLfoStep /\ call.op = "LFO.step" /\ call.name = SoloName
    /\ app.lfos[SoloName].waveform = "sawtooth"
    /\ app.lfos[SoloName].phase > LfoCycle
    /\ app.ticks >= 2
    /\ ret.values[1] # 0

---------------------------------------------------------------------------
(* Claims about the composer's random source and its chords *)

\* C13: a run of generate_procedural_chunk repeated from the same seed with
\* the same arguments returns the same buffer sample for sample, and the
\* random source is an explicit argument of the call, not implicit global
\* state: the call is handed a source and leaves the global generator as
\* it found it.
C13_SeededExplicitSource ==
    (IsChunk /\ ret.outcome = "ok")
        => /\ ret.chunk = generate_procedural_chunk(call.duration, call.tempo, call.scale, call.instrument, call.use_arpeggio, call.return_layers, ret.rng0).chunk
           /\ "rng" \in DOMAIN call
           /\ rng = ret.rng0

IsInversion == Returned("chord_inversion")
IsArp == Returned("generate_arpeggio") /\ ret.outcome = "ok"

\* the orders over the chord's indices a style selects
StyleOrders(style) ==
    IF style = "up" THEN {<<0, 1, 2>>}
    ELSE IF style = "down" THEN {<<2, 1, 0>>}
    ELSE {Permutations3[j] : j \in 1..6}

\* C14: chord_inversion(chord, k) is the cyclic left rotation by k of a
\* 3-note chord: element i of the result is element i + k (mod 3) of the
\* chord, so rotating by 0 and by 3 returns the original order and every
\* rotation returns the same three pitches.
C14_InversionIsLeftRotation ==
    IsInversion
        => /\ Len(ret.chord) = 3
           /\ \A i \in 1..3 : ret.chord[i] = call.chord[((i - 1 + call.inversion) % 3) + 1]
           /\ call.inversion \in {0, 3} => ret.chord = call.chord
           /\ \A p \in ChordPitches :
                 Cardinality({i \in 1..3 : ret.chord[i] = p})
                     = Cardinality({i \in 1..3 : call.chord[i] = p})

\* a chord of three different pitches rotated by one position
C14_Witness ==
    /\ IsInversion /\ call.inversion = 1
    /\ Cardinality({call.chord[i] : i \in 1..3}) = 3
    /\ ret.chord # call.chord

\* C15: in generate_arpeggio the tone rendered in every slot has the pitch
\* of an element of the chord: slot k renders chord[order[k mod n]], order
\* being the index order the style selects.
C15_SlotsRenderChordTones ==
    IsArp
        => \E order \in StyleOrders(call.style) :
              \A j \in 1..Len(ret.notes) :
                  ret.notes[j].freq
                      = midi_to_freq(call.chord[order[(ret.notes[j].slot % 3) + 1] + 1])

\* C16: in generate_arpeggio the chord indices used by successive slots are
\* the style's order repeated cyclically, and exactly
\* floor(duration x tempo / 60) slots contribute audio to the buffer.
C16_SlotsTileOrder ==
    IsArp
        => /\ \E order \in StyleOrders(call.style) :
                 \A j \in 1..Len(ret.notes) :
                     ret.notes[j].pitch = order[(ret.notes[j].slot % 3) + 1]
           /\ Cardinality({j \in 1..Len(ret.notes) : ret.notes[j].frames > 0}) = BeatsOfCall

---------------------------------------------------------------------------
(* Claims about the mono effects and the order of the chain *)

IsMono(stage) == Returned("mono_effect") /\ call.stage = stage
IsImpulse == Len(call.signal) > 0 /\ \A k \in 1..Len(call.signal) : call.signal[k] = mono_pattern("impulse", k)
DelayFrames == (SAMPLE_RATE * 2) \div 10
ReverbFrames == (SAMPLE_RATE * 3) \div 100

\* C17: for every buffer length N, phaser amount in (0, 1] and index i,
\* apply_phaser completes and returns a buffer of length N with
\* output[i] = input[i] + input[i - s(i)] exactly when i - s(i) >= 0 and
\* output[i] = input[i] otherwise (up to the clip to [-1, 1] that ends the
\* stage).
C17_PhaserCompletes ==
    IsMono("phaser")
        => /\ ret.outcome = "ok"
           /\ Len(ret.wave) = Len(call.signal)
           /\ \A k \in 1..Len(call.signal) :
                 LET r == (k - 1) - phaser_shift(k - 1, 20 * call.amount, 2 * call.amount)
                 IN  ret.wave[k] = Clip1(IF r >= 0 THEN call.signal[k] + call.signal[r + 1]
                                                   ELSE call.signal[k])

\* C18: for every buffer length N, chorus amount in (0, 1] and index i,
\* apply_chorus completes and returns a buffer of length N with
\* output[i] = input[i] + 0.5 x input[i - m(i)], the read index i - m(i)
\* lying inside [0, N) (up to the clip to [-1, 1] that ends the stage).
C18_ChorusCompletes ==
    IsMono("chorus")
        => /\ ret.outcome = "ok"
           /\ Len(ret.wave) = Len(call.signal)
           /\ \A k \in 1..Len(call.signal) :
                 LET r == (k - 1) - chorus_mod(k - 1, 25 * call.amount)
                 IN  /\ r \in 0..(Len(call.signal) - 1)
                     /\ ret.wave[k] = Clip1(call.signal[k] + Trunc(call.signal[r + 1], 2))

\* C20: apply_delay is recursive on its own output and apply_reverb is
\* feed-forward on its input.  For i < d both leave the sample unchanged.
\* A single impulse through the delay produces echoes at d, 2d, 3d, ...,
\* each the echo before it times feedback (gains feedback^k); through the
\* reverb it produces the single echo at d, of gain decay.
C20_DelayRecursiveReverbFeedForward ==
    /\ IsMono("delay")
          => /\ ret.outcome = "ok" /\ Len(ret.wave) = Len(call.signal)
             /\ \A k \in 1..Len(call.signal) : k <= DelayFrames => ret.wave[k] = call.signal[k]
             /\ IsImpulse
                   => \A k \in 1..Len(call.signal) :
                         k > DelayFrames => ret.wave[k] = Trunc(ret.wave[k - DelayFrames] * call.amount, 100)
    /\ IsMono("reverb")
          => /\ ret.outcome = "ok" /\ Len(ret.wave) = Len(call.signal)
             /\ \A k \in 1..Len(call.signal) : k <= ReverbFrames => ret.wave[k] = call.signal[k]
             /\ IsImpulse
                   => \A k \in 1..Len(call.signal) :
                         k > ReverbFrames
                             => ret.wave[k] = (IF k = ReverbFrames + 1 THEN Trunc(ONE * call.amount, 100) ELSE 0)

\* an impulse through the delay at feedback 0.5: the third echo has gain
\* one eighth
C20_Witness ==
    /\ IsMono("delay") /\ IsImpulse /\ call.amount = 50
    /\ Len(call.signal) > 3 * DelayFrames
    /\ ret.wave[3 * DelayFrames + 1] = ONE \div 8

\* the chunk a mono stage hands on when it receives chunk
after_mono(chunk, stage, amount) ==
    IF amount > 0 THEN both_channels(chunk, stage, amount).chunk ELSE chunk

\* C19: process_effects applies its enabled stages in the fixed order
\* reverb, delay, chorus, phaser, stereo-widen, low-pass, high-pass, then
\* the final clip: each stage's input is the output of the nearest
\* preceding enabled stage, for every combination of enabled and disabled
\* stages.
C19_FixedStageOrder ==
    IsEffects
        => /\ ret.after.reverb = after_mono(call.chunk, "reverb", call.reverb_amount)
           /\ ret.after.delay = after_mono(ret.after.reverb, "delay", call.delay_amount)
           /\ ret.after.chorus = after_mono(ret.after.delay, "chorus", call.chorus_amount)
           /\ ret.after.phaser = after_mono(ret.after.chorus, "phaser", call.phaser_amount)
           /\ ret.after.widen = (IF call.stereo_widen > 0
                                     THEN apply_stereo_widen(ret.after.phaser, call.stereo_widen)
                                     ELSE ret.after.phaser)
           /\ ret.after.low = (IF call.lowpass_cutoff > 20
                                   THEN apply_filter(ret.after.widen, "low", call.lowpass_cutoff)
                                   ELSE ret.after.widen)
           /\ ret.after.high = (IF call.highpass_cutoff > 20
                                    THEN apply_filter(ret.after.low, "high", call.highpass_cutoff)
                                    ELSE ret.after.low)
           /\ ret.out = clip_stereo(ret.after.high)

\* every stage enabled, and every stage changing the chunk it receives
C19_Witness ==
    /\ IsEffects
    /\ call.reverb_amount > 0 /\ call.delay_amount > 0 /\ call.chorus_amount > 0
    /\ call.phaser_amount > 0 /\ call.stereo_widen > 0
    /\ call.lowpass_cutoff > 20 /\ call.highpass_cutoff > 20
    /\ ret.after.reverb # call.chunk /\ ret.after.delay # ret.after.reverb
    /\ ret.after.chorus # ret.after.delay /\ ret.after.phaser # ret.after.chorus
    /\ ret.after.widen # ret.after.phaser /\ ret.after.low # ret.after.widen
    /\ ret.after.high # ret.after.low /\ ret.out # ret.after.high

---------------------------------------------------------------------------
(* Claims about apply_envelope *)

IsEnvelope == Returned("apply_envelope")
AttackFrames == (call.attack * Len(call.signal)) \div 100
DecayFrames == (call.decay * Len(call.signal)) \div 100
InAttack(i) == i < AttackFrames
InDecay(i) == i >= Len(call.signal) - DecayFrames

\* the gain of the claim at index i (0-based)
ClaimedGain(i) ==
    IF InDecay(i) THEN LinDown(i - (Len(call.signal) - DecayFrames), DecayFrames)
    ELSE IF InAttack(i) THEN LinUp(i, AttackFrames)
    ELSE ONE

\* C21: apply_envelope multiplies the input of length N by a gain in which
\* indices [0, floor(attack x N)) hold the attack ramp and indices
\* [N - floor(decay x N), N) the decay ramp; an index lying in both regions
\* has the decay ramp's value (last write wins), an index in neither has
\* gain 1, and a region of length zero changes nothing.
C21_EnvelopeRegions ==
    IsEnvelope
        => /\ Len(ret.wave) = Len(call.signal)
           /\ \A i \in 0..(Len(call.signal) - 1) :
                 ret.wave[i + 1] = Trunc(call.signal[i + 1] * ClaimedGain(i), ONE)
           /\ (AttackFrames = 0 /\ DecayFrames = 0) => ret.wave = call.signal

\* an index lying in both regions, where the two ramps differ
C21_Witness ==
    /\ IsEnvelope /\ Len(call.signal) > 0 /\ call.signal[1] = ONE
    /\ \E i \in 0..(Len(call.signal) - 1) :
          /\ InAttack(i) /\ InDecay(i)
          /\ LinUp(i, AttackFrames) # ClaimedGain(i)
          /\ ret.wave[i + 1] = ClaimedGain(i)

---------------------------------------------------------------------------
(* Claims about the scenes of gui.py *)

\* the oscillator `n` carries a rate and an amplitude assigned by
\* generate_random_scene
Rerandomised(n) == IsLfo /\ n \in DOMAIN app.lfo_attrs

\* C22: once generate_random_scene has re-randomised an oscillator's rate
\* and depth, every later step(dt) of that oscillator advances the phase by
\* the new rate * dt and returns its waveform scaled by the new depth.
C22_StepUsesRandomisedRateAndDepth ==
    [][(call'.op = "LFO.step" /\ app'.ticks = app.ticks + 1 /\ Rerandomised(call'.name)) =>
         \E new \in {app.lfo_attrs[call'.name]} :
            /\ app'.lfos[call'.name].phase = app.lfos[call'.name].phase + new.rate * call'.dt
            /\ ret'.values[1] = lfo_value([app'.lfos[call'.name] EXCEPT !.depth = new.amplitude])]_vars


\* the object shows scene k of its list: loading that file again would
\* change no setting
SceneShown(a, k) == a = apply_preset(a, a.folder[a.scenes[k]])

\* advance_scene has just taken a scene from a list of at least one scene
IsListAdvance ==
    /\ app.which = "scenes" /\ Returned("advance_scene")
    /\ app.gui.auto_scene_enabled /\ ~app.gui.random_scene_enabled
    /\ app.advances >= 1 /\ Len(app.gui.scenes) >= 1

\* C23: with automatic switching enabled, random scenes disabled and a list
\* of L >= 1 scenes, the advances after load_scene_list load the scenes in
\* list order cyclically, the first advance loading the first scene of the
\* list (so the k-th loads scene ((k - 1) mod L) + 1 and any L consecutive
\* advances load every scene once), and current_scene_index stays in [0, L).
C23_ListOrderFromFirstScene ==
    IsListAdvance =>
        /\ SceneShown(app.gui, ((app.advances - 1) % Len(app.gui.scenes)) + 1)
        /\ app.gui.current_scene_index \in 0..(Len(app.gui.scenes) - 1)


---------------------------------------------------------------------------
(* Claims about the buffer handed to process_effects *)

---------------------------------------------------------------------------
(* Claims about the evolving-preset blocks *)

EffectNames == {"reverb", "delay", "chorus", "phaser", "stereo"}

\* C25: in every stream_chunk and export_full_session iteration the tempo
\* handed to generate_procedural_chunk is a positive integer of at least
\* 20 BPM, and with evolving presets enabled every effect amount handed to
\* process_effects lies in [0, 1], for any slider values and any oscillator
\* state.
C25_TempoFlooredAmountsClamped ==
    /\ Returned("tempo_modulation") => ret.tempo \in Nat /\ ret.tempo >= 20
    /\ (Returned("effect_amounts") /\ app.evolving) =>
           \A n \in EffectNames : ret.amounts[n] >= 0 /\ ret.amounts[n] <= ONE

\* the tempo oscillator pulls a slow tempo below 20 and the floor holds it
\* at 20
C25_Witness ==
    /\ Returned("tempo_modulation") /\ app.evolving
    /\ app.tempo * ONE + ret.values[1] < 20 * ONE
    /\ ret.tempo = 20

\* oscillators push one amount above 1 and another below 0, and both are
\* clamped
C25_WitnessAmounts ==
    /\ Returned("effect_amounts") /\ app.evolving
    /\ app.sliders.reverb * 10 + ret.values[1] > ONE /\ ret.amounts.reverb = ONE
    /\ app.sliders.phaser * 10 + ret.values[4] < 0 /\ ret.amounts.phaser = 0


---------------------------------------------------------------------------
(* Claims about the scene timer of gui.py *)

\* the step is a call of stream_chunk of gui.py: the timer fired, or the
\* preview was switched on
StreamChunkCalled ==
    /\ IsGui
    /\ \/ call'.op = "gui.stream_chunk"
       \/ call'.op = "gui.toggle_live_preview" /\ ~app.previewing

\* what advance_scene can change on the object
SceneOf(a) ==
    [a EXCEPT !.lfos = <<>>, !.ticks = 0, !.time_accumulator = 0, !.previewing = FALSE,
              !.scene_timer = 0]

\* C26: with automatic scene switching enabled, after every stream_chunk
\* call 0 <= scene_timer < scene_duration, and advance_scene is called in
\* exactly those calls where the time accumulated since the previous
\* advance (what scene_timer holds, with this call's dt added) reaches
\* scene_duration; with switching disabled scene_timer and
\* current_scene_index do not change across a stream_chunk call.
C26_SceneTimerDrivesAdvance ==
    [][StreamChunkCalled =>
         IF app.auto_scene_enabled
             THEN /\ 0 <= app'.scene_timer /\ app'.scene_timer < app'.scene_duration
                  /\ IF app.scene_timer + DURATION_CHUNK >= app.scene_duration
                         THEN /\ app'.scene_timer = 0
                              /\ SceneOf(app') \in {SceneOf(a1) : a1 \in advance_scene(app)}
                         ELSE /\ app'.scene_timer = app.scene_timer + DURATION_CHUNK
                              /\ SceneOf(app') = SceneOf(app)
             ELSE /\ app'.scene_timer = app.scene_timer
                  /\ app'.current_scene_index = app.current_scene_index
                  /\ SceneOf(app') = SceneOf(app)]_vars

\* the second stream_chunk call has just advanced a list of two scenes, the
\* call before it having left the timer short of scene_duration
C26_Witness ==
    /\ IsGui /\ call.op = "gui.stream_chunk" /\ app.ticks = 2
    /\ app.auto_scene_enabled /\ ~app.random_scene_enabled
    /\ app.scene_duration = 2 * DURATION_CHUNK /\ app.scene_timer = 0
    /\ Len(app.scenes) = 2 /\ app.current_scene_index = 1

=============================================================================
